---- MODULE Spec2Model ----
(***************************************************************************)
(* Model of the distributed check-dispatch engine of rayping               *)
(* (internal/grpc): one GRPCCore with its pool of checker clients and one  *)
(* CheckConfigs job dispatched either in sharded mode (roundrobin.go) or   *)
(* in replicated mode (aggregated.go); the life cycle of the pool          *)
(* (NewGRPCCore, HealthCheck, Close) and the connection state machine of   *)
(* one CheckerClient (client.go).                                          *)
(*                                                                         *)
(* Indices are 1-based here; the 0-based index of the code is i - 1.       *)
(***************************************************************************)
EXTENDS Integers, Sequences, FiniteSets, TLC

\* ------------------------------------------------------------------ bounds
\* configured checker nodes
NumNodes == 3
\* largest batch handed to CheckConfigs
MaxItems == 3
\* replicated mode: largest batch
MaxAggItems == 2
\* replicated mode: largest number of (item, pool member) pairs of a job
MaxFanout == 4
\* non-terminal responses a stream carries before its terminal response
MaxSkipped == 2
\* largest configured concurrency limit of replicated mode
MaxConcurrentLimit == 2
\* calls of GRPCCore.Close
MaxCloseCalls == 2
\* number of GetStats calls made on one engine
MaxStatsCalls == 3
\* number of CheckConfigs calls running concurrently on one engine
NumJobs == 3
\* number of configs handed to one CheckerClient.CheckConfigs call
MaxStreamItems == 2
\* number of responses the node sends on one Check stream
MaxResponses == 3
\* length of the Telegram bot list
MaxBots == 3
\* number of round-robin selections made on a bot list of two or more
MaxPicks == 3
\* termination is checked on jobs of up to this many (item, pool member) pairs
MaxLiveFanout == 2
\* goroutines that call into one CheckerClient at the same time
NumCallers == 3

Nodes == 1..NumNodes

\* ------------------------------------------------------------- vocabulary
\* core.CheckResultStatus values
CheckResultStatusSuccess == "success"
CheckResultStatusUnavailable == "unavailable"
CheckResultStatusError == "error"

\* the tag configured for node n (config.CheckerNodeConfig.Tag)
NodeTag(n) == <<"tag", n>>
\* a tag no node of the pool is configured with
ForeignTag == <<"tag", 0>>

\* the text of the i-th submitted item; items repeat (duplicates are allowed)
ItemText(i) == IF i % 2 = 1 THEN "cfgA" ELSE "cfgB"
\* an item text no batch holds (a node may echo anything in response.Config)
ForeignText == "cfgX"

\* CheckerResponse (client.go), as seen by the dispatchers
Response(cfg, valid, lat, st, tag) ==
  [Config |-> cfg, IsValid |-> valid, LatencyMs |-> lat,
   Error |-> IF valid /\ st = "SUCCESS" THEN "" ELSE "check failed",
   Protocol |-> IF valid /\ st = "SUCCESS" THEN "vless" ELSE "",
   Server |-> IF valid /\ st = "SUCCESS" THEN "srv" ELSE "",
   CountryCode |-> IF valid /\ st = "SUCCESS" THEN "DE" ELSE "",
   Remark |-> IF valid /\ st = "SUCCESS" THEN "rem" ELSE "",
   Status |-> st, CheckerNodeTag |-> tag]

\* the nil *CheckerResponse
NilResponse == Response("", FALSE, 0, "NIL", ForeignTag)

\* the progress markers a stream carries before anything else: PENDING, CHECKING, ...
Progress(cfg, n, k) ==
  [j \in 1..k |-> Response(cfg, FALSE, 0, IF j % 2 = 1 THEN "PENDING" ELSE "CHECKING",
                           NodeTag(n))]

\* a check that ran to its end and found the item unusable: status SUCCESS
\* without validity, no error message, the metadata parsed from the item
Rejected(cfg, n) ==
  [Response(cfg, FALSE, 100, "SUCCESS", NodeTag(n)) EXCEPT
     !.Error = "", !.Protocol = "vless", !.Server = "srv"]

\* every kind of terminal response of node n: success at two latencies, under
\* a tag that is not the configured one and with an echoed text that is not
\* the one sent, SUCCESS without validity (with and
\* without an error message), TIMEOUT with and without validity, and another
\* status with validity
FullTerminal(cfg, n) ==
  {Response(cfg, TRUE, 100, "SUCCESS", NodeTag(n)),
   Response(cfg, TRUE, 201, "SUCCESS", NodeTag(n)),
   Response(cfg, TRUE, 200, "SUCCESS", ForeignTag),
   Response(ForeignText, TRUE, 200, "SUCCESS", NodeTag(n)),
   Response(cfg, FALSE, 100, "SUCCESS", NodeTag(n)),
   Rejected(cfg, n),
   Response(cfg, FALSE, 201, "TIMEOUT", NodeTag(n)),
   Response(cfg, TRUE, 201, "TIMEOUT", NodeTag(n)),
   Response(cfg, TRUE, 201, "FAILED", NodeTag(n))}

\* the reduced set of terminal responses
LeanTerminal(cfg, n) ==
  {Response(cfg, TRUE, 200, "SUCCESS", NodeTag(n)),
   Response(cfg, FALSE, 201, "TIMEOUT", NodeTag(n))}

\* errors CheckerClient.CheckConfigs returns when the stream cannot start
StartErrors == {"connection unavailable"}

\* ------------------------------------------------------------------ state
VARIABLES
  aggregateMode,   \* GRPCCore.aggregateMode
  maxConcurrent,   \* GRPCCore.maxConcurrent
  clients,         \* GRPCCore.clients (node ids, pool order)
  clientTags,      \* GRPCCore.clientTags
  totalRequests,   \* GRPCCore.totalRequests
  activeRequests,  \* GRPCCore.activeRequests
  configs,         \* the batch of the job
  jobPc,           \* position of processConfigs
  ctxDone,         \* the job context is done (deadline fired or cancel())
  deadlineFired,   \* the context ended by its deadline, not by cancel()
  resultChan,      \* everything sent on the job's result stream, in order
  closeCount,      \* number of close(resultChan) executed
  snap,            \* sharded: the snapshot of distributeConfigsAcrossWorkers
  task,            \* sharded: per item, the processConfigWithWorker goroutine
  allResults,      \* sharded: the allResults channel
  allClosed,       \* sharded: close(allResults) has run
  item,            \* replicated: per item, the goroutine of processConfigsWithAllWorkers
  wtask,           \* replicated: per item and node, processConfigWithSingleWorker
  wchan,           \* replicated: per item, the workerResult channel
  semaphore,       \* replicated: number of tokens in the semaphore channel
  contacted,       \* per item, the clients CheckConfigs was called on (history)
  optsNodes,       \* GRPCCoreOpts.CheckerNodes (node ids, configured order)
  optsLegacy,      \* GRPCCoreOpts.CheckerServiceAddr != ""
  reachable,       \* the nodes NewCheckerClient can connect to
  corePc,          \* NewGRPCCore: "new", then "ok" or "failed"
  newErr,          \* the error NewGRPCCore returned
  closeRets,       \* the errors GRPCCore.Close returned, one per call
  connCloses,      \* per node, the number of CheckerClient.Close calls
  hc,              \* the GRPCCore.HealthCheck call
  cc,              \* one CheckerClient: conn, connected, reconnecting, mu
  caller,          \* per goroutine, its call into the CheckerClient
  channels,        \* the grpc.ClientConn objects created for the CheckerClient
  balanceIndex,    \* GRPCCore.balanceIndex
  gs,              \* the GRPCCore.GetStats calls made so far
  optsTimeout,     \* GRPCCoreOpts.Timeout as the caller passed it, in ms
  timeout,         \* GRPCCore.timeout, in ms
  jobs,            \* concurrent processConfigs calls: position and deadline of each
  call,            \* one CheckerClient.CheckConfigs call: its stream and its two tasks
  bots,            \* Telegram.bots: the bot stored under each name
  botsList,        \* Telegram.botsList
  currentBot,      \* Telegram.currentBot
  nextBot          \* what the last getNextBot returned, and whether bots held it then

engineVars == <<aggregateMode, maxConcurrent, clients, clientTags,
                totalRequests, activeRequests>>
jobVars == <<configs, jobPc, ctxDone, deadlineFired, resultChan, closeCount>>
shardVars == <<snap, task, allResults, allClosed>>
replVars == <<item, wtask, wchan, semaphore>>
statsVars == <<balanceIndex, gs>>
poolVars == <<optsNodes, optsLegacy, reachable, corePc, newErr, closeRets, connCloses, hc,
              statsVars>>
connVars == <<cc, caller, channels>>
botVars == <<bots, botsList, currentBot, nextBot>>
sideVars == <<optsTimeout, timeout, jobs, call, botVars>>
vars == <<engineVars, jobVars, shardVars, replVars, contacted, poolVars, connVars, sideVars>>

Items == 1..Len(configs)

\* ---------------------------------------------------------------- helpers
Range(s) == {s[k] : k \in 1..Len(s)}

\* core.CheckResult; idx is the position of the item the result stands for
\* (history only, not a field of the code's struct); RealDelay is in ms
CheckResult(i, status, err, raw, proto, server, country, remark, delay, tags) ==
  [idx |-> i, Status |-> status, Error |-> err, Raw |-> raw,
   Protocol |-> proto, Server |-> server, CountryCode |-> country,
   Remark |-> remark, RealDelay |-> delay, CheckerNodeTag |-> tags]

\* createErrorResult that leaves the item text out
createErrorResultNoRaw(i, errorMsg, config, tags) ==
  CheckResult(i, CheckResultStatusError, errorMsg, "", "", "", "", "", 0, tags)

\* aggregated.go createErrorResult
createErrorResult(i, errorMsg, config, tags) ==
  CheckResult(i, CheckResultStatusError, errorMsg, config, "", "", "", "", 0, tags)

\* a conversion that trusts the status alone
convertToCheckResultStatusOnly(i, r) ==
  LET status == IF r.Status = "SUCCESS" THEN CheckResultStatusSuccess
                ELSE IF r.Status = "TIMEOUT" THEN CheckResultStatusUnavailable
                ELSE CheckResultStatusError
      err == IF r.Status = "SUCCESS" THEN ""
             ELSE IF r.Status = "TIMEOUT" THEN "Connection timeout"
             ELSE r.Error
  IN CheckResult(i, status, err, r.Config, r.Protocol, r.Server, r.CountryCode,
                 r.Remark, r.LatencyMs, <<r.CheckerNodeTag>>)

\* core.go convertToCheckResult
convertToCheckResult(i, r) ==
  LET status == IF r.IsValid /\ r.Status = "SUCCESS" THEN CheckResultStatusSuccess
                ELSE IF r.Status = "TIMEOUT" THEN CheckResultStatusUnavailable
                ELSE CheckResultStatusError
      err == IF r.IsValid /\ r.Status = "SUCCESS" THEN ""
             ELSE IF r.Status = "TIMEOUT" THEN "Connection timeout"
             ELSE r.Error
  IN CheckResult(i, status, err, r.Config, r.Protocol, r.Server, r.CountryCode,
                 r.Remark, r.LatencyMs, <<r.CheckerNodeTag>>)

\* aggregated.go workerResult; node is the pool member whose task sent it
\* (history only, not a field of the code's struct)
workerResult(n, tag, result, err) == [node |-> n, tag |-> tag, result |-> result, err |-> err]

\* a per-item goroutine of sharded mode that has not been started; stream is the
\* sequence of wire statuses its range loop received, sent the response it
\* forwarded and err the error CheckConfigs returned (all history only)
NoTask == [pc |-> "none", client |-> 0, tag |-> ForeignTag, stream |-> <<>>,
           sent |-> NilResponse, err |-> ""]

\* a goroutine of processConfigsWithAllWorkers that has not been started; collected
\* lists the pool members whose outcome the collector has received and late says
\* that the deadline fired before every member had delivered (both history only)
NoItem == [pc |-> "none", clients |-> <<>>, tags |-> <<>>, collected |-> <<>>,
           successfulResults |-> <<>>, totalLatency |-> 0, successfulTags |-> <<>>,
           late |-> FALSE]

\* a processConfigWithSingleWorker goroutine that has not been started
NoWorker == [pc |-> "none", stream |-> <<>>,
             sent |-> workerResult(0, ForeignTag, NilResponse, "")]

\* Go's integer division truncates toward zero
TruncDiv(a, b) == IF a >= 0 THEN a \div b ELSE -((-a) \div b)

\* the filter without its PENDING half
IsTerminalNoPending(r) == r.Status # "CHECKING"

\* the filter of both dispatchers: Status != "CHECKING" && Status != "PENDING"
IsTerminal(r) == r.Status # "CHECKING" /\ r.Status # "PENDING"

\* the range loops of processWorkerResults and processConfigWithSingleWorker: the
\* position, from k on, of the first response that passes the filter, 0 if the
\* channel is closed before one arrives
RECURSIVE FirstTerminal(_, _)
FirstTerminal(s, k) ==
  IF k > Len(s) THEN 0
  ELSE IF IsTerminal(s[k]) THEN k
  ELSE FirstTerminal(s, k + 1)

\* the responses the loop took from the channel: up to the first terminal one
Received(s) == IF FirstTerminal(s, 1) = 0 THEN s ELSE SubSeq(s, 1, FirstTerminal(s, 1))

Statuses(s) == [k \in 1..Len(s) |-> s[k].Status]

\* what a node's stream can deliver on grpcResults before the channel is closed.
\* A batch of one item is probed with every kind of terminal response and with
\* progress markers on the first node; larger batches and the second node with
\* the reduced set; replicated batches of several items with success alone
\* (besides start errors and streams without a result); nodes after the second
\* either succeed or fail to start.
Streams(i, n) ==
  LET cfg == configs[i]
      rich == Len(configs) = 1 /\ n = 1
      valid == {t \in LeanTerminal(cfg, n) : t.IsValid}
      term == IF rich THEN FullTerminal(cfg, n)
              ELSE IF (aggregateMode /\ Len(configs) > 1) \/ n > 2 THEN valid
              ELSE LeanTerminal(cfg, n)
      marks == IF rich THEN 0..MaxSkipped ELSE {0}
  IN  {Progress(cfg, n, k) : k \in marks \cap {j \in 0..MaxSkipped : n <= 2}}
      \cup {Progress(cfg, n, k) \o <<t>> : k \in marks, t \in term}
      \cup {Progress(cfg, n, k) \o <<t, Response(cfg, FALSE, 201, "TIMEOUT", NodeTag(n))>> :
               k \in marks \cap {MaxSkipped}, t \in valid}

\* the streams of a call whose context was already done when it was made: the
\* receive task ends on the context error before any response
LateStreams == {<<>>}

\* the partition rule shifted by one
ClientIndexShifted(i0, n) == (i0 + 1) % n

\* roundrobin.go distributeConfigsToWorkers: clientIndex := i % len(clients)
ClientIndex(i0, n) == i0 % n

\* ------------------------------------------------------ pool construction
\* the client of the deprecated single-address configuration and its tag
LegacyNode == 0
LegacyTag == <<"legacy", 0>>

\* errors are values <<text, node>>; the nil error
NilErr == <<"nil", 0>>
\* the error client n's HealthCheck returns when the node is unhealthy
HealthErr(n) == <<"health check failed", n>>
\* the error client n's Close returns when closing its channel fails
CloseErr(n) == <<"close failed", n>>

\* the CheckerNodes lists a configuration can hold: every list of distinct nodes
NodeLists ==
  {s \in UNION {[1..k -> Nodes] : k \in 0..NumNodes} :
     \A a, b \in DOMAIN s : a # b => s[a] # s[b]}

\* the loop body that records the tag of a node whether or not it connected
AppendNodeTagAlways(acc, node, ok) ==
  IF node \notin ok THEN [acc EXCEPT !.tags = Append(@, NodeTag(node))]
  ELSE [clients |-> Append(acc.clients, node), tags |-> Append(acc.tags, NodeTag(node))]

\* core.go NewGRPCCore, the body of the loop over opts.CheckerNodes: a node whose
\* NewCheckerClient fails is skipped (continue), the others are appended
AppendNode(acc, node, ok) ==
  IF node \notin ok THEN acc
  ELSE [clients |-> Append(acc.clients, node), tags |-> Append(acc.tags, NodeTag(node))]

\* core.go NewGRPCCore, the loop over opts.CheckerNodes from position k on
RECURSIVE ConnectNodes(_, _, _, _)
ConnectNodes(nodes, ok, k, acc) ==
  IF k > Len(nodes) THEN acc
  ELSE ConnectNodes(nodes, ok, k + 1, AppendNode(acc, nodes[k], ok))

\* core.go NewGRPCCore: the pool and the error it returns for the configured
\* nodes, the legacy address and the set ok of nodes that accept a connection
NewGRPCCore(nodes, legacy, ok) ==
  LET none == [clients |-> <<>>, tags |-> <<>>]
      pool == IF Len(nodes) > 0 THEN ConnectNodes(nodes, ok, 1, none)
              ELSE IF legacy /\ LegacyNode \in ok
              THEN [clients |-> <<LegacyNode>>, tags |-> <<LegacyTag>>]
              ELSE none
      err == IF Len(nodes) = 0 /\ legacy /\ LegacyNode \notin ok
             THEN "failed to create checker client"
             ELSE IF Len(pool.clients) = 0 THEN "no checker nodes available"
             ELSE ""
  IN [clients |-> pool.clients, tags |-> pool.tags, err |-> err]

\* a GRPCCore.HealthCheck call that has not been made; queried lists the clients
\* whose HealthCheck was called and outcomes what each returned (history only)
NoHealthCheck == [pc |-> "idle", clients |-> <<>>, tags |-> <<>>, k |-> 0,
                  lastErr |-> NilErr, queried |-> <<>>, outcomes |-> <<>>, ret |-> NilErr]

\* ---------------------------------------------------------- CheckerClient
Callers == 1..NumCallers

\* the CheckerClient NewCheckerClient returns: conn is the index in channels of
\* the grpc.ClientConn held, 0 for nil; mu is the goroutine holding the lock, 0
\* if it is free
NewClient(ok) == [conn |-> IF ok THEN 1 ELSE 0, connected |-> ok, reconnecting |-> FALSE,
                  mu |-> 0]

\* no RPC issued: the channel an RPC went out on, whether the client was marked
\* connected and the channel open at that moment, and whether a connect or
\* reconnect was between its lock and its unlock (history only)
NoRPC == [issued |-> FALSE, conn |-> 0, connected |-> FALSE, open |-> FALSE,
          replacing |-> FALSE]

\* a goroutine that has not called into the client; with lists the goroutines
\* inside the slow path of ensureConnected when this one entered it, inFlight says
\* that another reconnect held the lock when this one's reconnect was called,
\* attempts counts its createConnection calls, made is the channel it created
\* and tornDown the channels it closed (history only)
NoCall == [op |-> "none", pc |-> "idle", ret |-> "", with |-> {}, inFlight |-> FALSE,
           attempts |-> 0, made |-> 0, tornDown |-> {}, rpc |-> NoRPC]

\* ------------------------------------------------------------------- Init
\* no job has been started on the engine
JobFresh ==
  /\ totalRequests = 0
  /\ activeRequests = 0
  /\ jobPc = "start"
  /\ ctxDone = FALSE
  /\ deadlineFired = FALSE
  /\ resultChan = <<>>
  /\ closeCount = 0
  /\ snap = [clients |-> <<>>, tags |-> <<>>]
  /\ task = [i \in Items |-> NoTask]
  /\ allResults = <<>>
  /\ allClosed = FALSE
  /\ item = [i \in Items |-> NoItem]
  /\ wtask = [i \in Items |-> [n \in Nodes |-> NoWorker]]
  /\ wchan = [i \in Items |-> <<>>]
  /\ semaphore = 0
  /\ contacted = [i \in Items |-> {}]

\* nothing has been called on the pool
PoolFresh ==
  /\ closeRets = <<>>
  /\ connCloses = [n \in Nodes \cup {LegacyNode} |-> 0]
  /\ hc = NoHealthCheck
  /\ balanceIndex = 0
  /\ gs = <<>>

\* time.Second, in ms
Second == 1000

\* time.Duration.Truncate: d rounded toward zero to a multiple of m
Truncate(d, m) ==
  IF m <= 0 THEN d
  ELSE IF d >= 0 THEN d - (d % m)
  ELSE 0 - ((0 - d) - ((0 - d) % m))

\* core.go NewGRPCCore: the timeout the engine keeps for the configured one
EffectiveTimeout(t) ==
  IF Truncate(t, Second) <= 0 THEN 30 * Second ELSE Truncate(t, Second)

\* the timeouts a configuration can hold, in ms
Timeouts == {0 - 1500, 0 - 1, 0, 50, 999, 1000, 1500, 2000}

\* the processConfigs goroutines of one engine
Jobs == 1..NumJobs

\* a CheckConfigs call nobody made yet
NoJob == [pc |-> "idle", deadline |-> 0, deferred |-> 0, cancelled |-> FALSE,
          decremented |-> FALSE, closed |-> FALSE]

\* client.go configCheckBuffer
configCheckBuffer == 2

\* a CheckerClient.CheckConfigs call not made yet: n configs to send; the send
\* task (spc, the index i of the next config, the stream.Send calls made, the
\* call that failed, the exit taken, the CloseSend calls), the node's side of
\* the stream (responses produced, those in flight, the end of the stream), the
\* receive task (rpc, the response in hand, the responses received, forwarded
\* and dropped, the exit taken) and the result channel (content, close calls,
\* a send made after the close, the responses the consumer took)
NoStream == [pc |-> "none", n |-> 0, ret |-> "", ctxDone |-> FALSE,
             spc |-> "idle", i |-> 0, sendCalls |-> 0, failedAt |-> 0, sexit |-> "",
             closeSends |-> 0,
             produced |-> 0, wire |-> <<>>, serverDone |-> FALSE,
             rpc |-> "idle", holding |-> 0, received |-> 0, forwarded |-> 0,
             dropped |-> 0, lateForwards |-> 0, rexit |-> "",
             resultChan |-> <<>>, closes |-> 0, sendOnClosed |-> FALSE,
             delivered |-> <<>>]

\* notify.TelegramBot
TelegramBot(name, token) == [Name |-> name, Token |-> token]

\* the names and tokens bots are added under
BotNames == {"primary", "second"}
BotTokens == {"t1", "t2"}

\* no bot returned yet
NoBot == [bot |-> TelegramBot("", ""), listed |-> TRUE]

\* a Telegram notifier without a bot
BotsFresh ==
  /\ bots = <<>>
  /\ botsList = <<>>
  /\ currentBot = 0
  /\ nextBot = NoBot

\* no job counted, no Check stream opened, no bot pool
SideFresh ==
  /\ optsTimeout = 0
  /\ jobs = [j \in Jobs |-> NoJob]
  /\ call = NoStream
  /\ BotsFresh

\* one connected CheckerClient nobody calls into
ConnFresh ==
  /\ cc = NewClient(TRUE)
  /\ channels = <<[open |-> TRUE, closes |-> 0]>>
  /\ caller = [c \in Callers |-> NoCall]

\* an engine built by NewGRPCCore over n nodes that all accepted the connection,
\* about to run a job of m items
Init ==
  /\ aggregateMode \in BOOLEAN
  /\ maxConcurrent \in 1..MaxConcurrentLimit
  /\ \E n \in 1..NumNodes, m \in 1..MaxItems :
       /\ aggregateMode => (m <= MaxAggItems /\ m * n <= MaxFanout)
       /\ (~aggregateMode \/ m = 1) => maxConcurrent = 1
       /\ optsNodes = [k \in 1..n |-> k]
       /\ configs = [i \in 1..m |-> ItemText(i)]
  /\ optsLegacy = FALSE
  /\ reachable = Nodes
  /\ corePc = "ok"
  /\ newErr = NewGRPCCore(optsNodes, optsLegacy, reachable).err
  /\ clients = NewGRPCCore(optsNodes, optsLegacy, reachable).clients
  /\ clientTags = NewGRPCCore(optsNodes, optsLegacy, reachable).tags
  /\ JobFresh
  /\ PoolFresh
  /\ ConnFresh
  /\ SideFresh
  /\ timeout = EffectiveTimeout(optsTimeout)

\* ------------------------------------------------------- engine and job
\* core.go processConfigs, up to the choice of the dispatcher
ProcessConfigsBegin ==
  /\ jobPc = "start"
  /\ totalRequests' = totalRequests + 1
  /\ activeRequests' = activeRequests + 1
  /\ jobPc' = "dispatch"
  /\ UNCHANGED <<aggregateMode, maxConcurrent, clients, clientTags, configs, ctxDone,
                 deadlineFired, resultChan, closeCount, shardVars, replVars, contacted>>
  /\ UNCHANGED <<poolVars, connVars>>
  /\ UNCHANGED sideVars

\* a result stream whose buffer is one short of the batch
ResultChanShort == Len(configs) - 1

\* core.go CheckConfigs: make(chan core.CheckResult, len(configs)); the model
\* never takes a result off the stream (a caller that does not read)
ResultChanCap == Len(configs)

\* the pool members of item i that have not delivered their outcome yet
Undelivered(i) == {n \in Range(item[i].clients) : wtask[i][n].pc # "done"}

\* context.WithTimeout: the deadline of the job fires
DeadlineFires ==
  /\ jobPc \notin {"start", "closed"}
  /\ ~ctxDone
  /\ ctxDone' = TRUE
  /\ deadlineFired' = TRUE
  /\ item' = [i \in Items |->
               IF item[i].pc = "waiting" \/ (item[i].pc = "collecting" /\ Undelivered(i) # {})
               THEN [item[i] EXCEPT !.late = TRUE]
               ELSE item[i]]
  /\ UNCHANGED <<engineVars, configs, jobPc, resultChan, closeCount, shardVars,
                 wtask, wchan, semaphore, contacted>>
  /\ UNCHANGED <<poolVars, connVars>>
  /\ UNCHANGED sideVars

\* the job has yet to take a snapshot of the pool (getClientsAndTags)
SnapshotPending ==
  \/ jobPc \in {"start", "dispatch"}
  \/ \E i \in Items : item[i].pc = "waiting"

\* core.go GRPCCore.Close, the loop: the error returned when the clients of
\* failing fail to close, lastErr so far, from position k on
RECURSIVE CloseLoop(_, _, _, _)
CloseLoop(cs, failing, k, lastErr) ==
  IF k > Len(cs) THEN lastErr
  ELSE CloseLoop(cs, failing, k + 1, IF cs[k] \in failing THEN CloseErr(cs[k]) ELSE lastErr)

\* the number of positions of cs that hold n
Occurrences(cs, n) == Cardinality({k \in 1..Len(cs) : cs[k] = n})

\* a Close that keeps the list it has just closed
ClearPoolKept(cs) == cs

\* core.go GRPCCore.Close: g.clients = nil, g.clientTags = nil
ClearPool(cs) == <<>>

\* core.go GRPCCore.Close: every client of the pool is closed and the pool is
\* emptied; the last error of a client is returned. Modelled while a job can
\* still observe the pool; a later Close changes nothing the job reads.
Close ==
  /\ corePc = "ok"
  /\ Len(closeRets) < MaxCloseCalls
  /\ SnapshotPending
  /\ \E failing \in SUBSET Range(clients) :
       closeRets' = Append(closeRets, CloseLoop(clients, failing, 1, NilErr))
  /\ connCloses' = [n \in DOMAIN connCloses |-> connCloses[n] + Occurrences(clients, n)]
  /\ clients' = ClearPool(clients)
  /\ clientTags' = ClearPool(clientTags)
  /\ UNCHANGED <<aggregateMode, maxConcurrent, totalRequests, activeRequests, jobVars,
                 shardVars, replVars, contacted, optsNodes, optsLegacy, reachable, corePc,
                 newErr, hc, connVars>>
  /\ UNCHANGED <<statsVars, sideVars>>

\* ----------------------------------------------------------- sharded mode
\* handleNoClients that stops after the first item
handleNoClientsFirst ==
  [i \in Items \cap {1} |-> CheckResult(i, CheckResultStatusError,
                                         "no available checker clients",
                                         configs[i], "", "", "", "", 0, <<>>)]

\* roundrobin.go handleNoClients
handleNoClients ==
  [i \in Items |-> CheckResult(i, CheckResultStatusError, "no available checker clients",
                               configs[i], "", "", "", "", 0, <<>>)]

\* roundrobin.go distributeConfigsAcrossWorkers up to collectAndForwardResults:
\* getClientsAndTags, then handleNoClients or distributeConfigsToWorkers (one
\* goroutine per item)
DistributeConfigsAcrossWorkers ==
  /\ jobPc = "dispatch"
  /\ ~aggregateMode
  /\ snap' = [clients |-> clients, tags |-> clientTags]
  /\ IF Len(clients) = 0
     THEN /\ resultChan' = resultChan \o handleNoClients
          /\ jobPc' = "returning"
          /\ UNCHANGED task
     ELSE /\ task' = [i \in Items |->
                       [NoTask EXCEPT
                          !.pc = IF ctxDone THEN "spawnedLate" ELSE "spawned",
                          !.client = clients[ClientIndex(i - 1, Len(clients)) + 1],
                          !.tag = clientTags[ClientIndex(i - 1, Len(clients)) + 1]]]
          /\ jobPc' = "forwarding"
          /\ UNCHANGED resultChan
  /\ UNCHANGED <<engineVars, configs, ctxDone, deadlineFired, closeCount, allResults,
                 allClosed, replVars, contacted>>
  /\ UNCHANGED <<poolVars, connVars>>
  /\ UNCHANGED sideVars

\* handleWorkerError that leaves the item text out
handleWorkerErrorNoRaw(i, config, err) ==
  CheckResult(i, CheckResultStatusError, err, "", "", "", "", "", 0, <<>>)

\* roundrobin.go handleWorkerError
handleWorkerError(i, config, err) ==
  CheckResult(i, CheckResultStatusError, err, config, "", "", "", "", 0, <<>>)

\* roundrobin.go processWorkerResults: the results sent on allResults for the
\* stream s
processWorkerResults(i, s) ==
  IF FirstTerminal(s, 1) = 0 THEN <<>>
  ELSE LET result == s[FirstTerminal(s, 1)]
       IN <<[convertToCheckResult(i, result) EXCEPT
               !.CheckerNodeTag = <<result.CheckerNodeTag>>]>>

\* roundrobin.go processConfigWithWorker: client.CheckConfigs fails to start
\* (handleWorkerError) or processWorkerResults runs over the stream's channel
ProcessConfigWithWorker(i) ==
  /\ task[i].pc \in {"spawned", "spawnedLate"}
  /\ contacted' = [contacted EXCEPT ![i] = @ \cup {task[i].client}]
  /\ \/ \E err \in StartErrors :
          /\ Len(allResults) < Len(configs)
          /\ allResults' = Append(allResults, handleWorkerError(i, configs[i], err))
          /\ task' = [task EXCEPT ![i].pc = "done", ![i].err = err]
     \/ \E s \in IF task[i].pc = "spawned" THEN Streams(i, task[i].client) ELSE LateStreams :
          /\ Len(allResults) + Len(processWorkerResults(i, s)) <= Len(configs)
          /\ allResults' = allResults \o processWorkerResults(i, s)
          /\ task' = [task EXCEPT ![i].pc = "done",
                                  ![i].stream = Statuses(Received(s)),
                                  ![i].sent = IF FirstTerminal(s, 1) = 0 THEN NilResponse
                                              ELSE s[FirstTerminal(s, 1)]]
  /\ UNCHANGED <<engineVars, jobVars, snap, allClosed, replVars>>
  /\ UNCHANGED <<poolVars, connVars>>
  /\ UNCHANGED sideVars

\* a wait group that is released by the first wg.Done
WgDoneFirst == \E i \in Items : task[i].pc = "done"

\* sync.WaitGroup of sharded mode: every processConfigWithWorker has run wg.Done
WgDone == \A i \in Items : task[i].pc = "done"

\* aggregated.go collectAndForwardResults, the goroutine: wg.Wait(); close(allResults)
CloseAllResults ==
  /\ jobPc = "forwarding"
  /\ ~allClosed
  /\ WgDone
  /\ allClosed' = TRUE
  /\ UNCHANGED <<engineVars, jobVars, snap, task, allResults, replVars, contacted>>
  /\ UNCHANGED <<poolVars, connVars>>
  /\ UNCHANGED sideVars

\* aggregated.go collectAndForwardResults, one iteration of the range loop
ForwardResult ==
  /\ jobPc = "forwarding"
  /\ allResults # <<>>
  /\ Len(resultChan) < ResultChanCap
  /\ resultChan' = Append(resultChan, Head(allResults))
  /\ allResults' = Tail(allResults)
  /\ UNCHANGED <<engineVars, configs, jobPc, ctxDone, deadlineFired, closeCount, snap,
                 task, allClosed, replVars, contacted>>
  /\ UNCHANGED <<poolVars, connVars>>
  /\ UNCHANGED sideVars

\* sync.WaitGroup of replicated mode: every item's goroutine has run wg.Done
ItemsDone == \A i \in Items : item[i].pc = "done"

\* the dispatcher has returned to processConfigs
DispatcherReturned ==
  \/ jobPc = "returning"
  \/ jobPc = "forwarding" /\ allClosed /\ allResults = <<>>
  \/ jobPc = "waiting" /\ ItemsDone

\* core.go processConfigs, the deferred calls: cancel(), activeRequests.Add(-1),
\* close(resultChan)
ProcessConfigsReturn ==
  /\ DispatcherReturned
  /\ ctxDone' = TRUE
  /\ activeRequests' = activeRequests - 1
  /\ closeCount' = closeCount + 1
  /\ jobPc' = "closed"
  /\ UNCHANGED <<aggregateMode, maxConcurrent, clients, clientTags, totalRequests,
                 configs, deadlineFired, resultChan, shardVars, replVars, contacted>>
  /\ UNCHANGED <<poolVars, connVars>>
  /\ UNCHANGED sideVars

\* -------------------------------------------------------- replicated mode
\* aggregated.go processConfigsWithAllWorkers: one goroutine per item, then wg.Wait()
ProcessConfigsWithAllWorkers ==
  /\ jobPc = "dispatch"
  /\ aggregateMode
  /\ item' = [i \in Items |-> [NoItem EXCEPT !.pc = "waiting"]]
  /\ jobPc' = "waiting"
  /\ UNCHANGED <<engineVars, configs, ctxDone, deadlineFired, resultChan, closeCount,
                 shardVars, wtask, wchan, semaphore, contacted>>
  /\ UNCHANGED <<poolVars, connVars>>
  /\ UNCHANGED sideVars

\* an item goroutine that keeps error results to itself
EmitMergedSuccessOnly(i, it, res) ==
  /\ resultChan' = IF res.Status = CheckResultStatusError THEN resultChan
                   ELSE Append(resultChan, res)
  /\ item' = [item EXCEPT ![i] = [it EXCEPT !.pc = "done"]]

\* the item's goroutine sends the merged result on the result stream and
\* releases the semaphore (aggregated.go processConfigsWithAllWorkers)
EmitMerged(i, it, res) ==
  /\ Len(resultChan) < ResultChanCap
  /\ resultChan' = Append(resultChan, res)
  /\ item' = [item EXCEPT ![i] = [it EXCEPT !.pc = "done"]]

\* a semaphore that admits everybody
SemaphoreOpen == TRUE

\* aggregated.go processConfigsWithAllWorkers: semaphore <- struct{}{} goes through
\* while the channel of capacity g.maxConcurrent has room
SemaphoreFree == semaphore < maxConcurrent

\* the item's goroutine acquires the semaphore and runs processConfigWithAllWorkers
\* up to the collector: getClientsAndTags, then the error result of an empty pool
\* or sendConfigToAllWorkers (one goroutine per pool member)
ProcessConfigWithAllWorkers(i) ==
  /\ item[i].pc = "waiting"
  /\ SemaphoreFree
  /\ IF Len(clients) = 0
     THEN /\ EmitMerged(i, item[i],
                 createErrorResult(i, "no available checker clients", configs[i], <<>>))
          /\ UNCHANGED <<semaphore, wtask>>
     ELSE /\ semaphore' = semaphore + 1
          /\ item' = [item EXCEPT ![i].pc = "collecting", ![i].clients = clients,
                                  ![i].tags = clientTags]
          /\ wtask' = [wtask EXCEPT ![i] =
                 [n \in Nodes |->
                    IF n \in Range(clients)
                    THEN [NoWorker EXCEPT !.pc = IF ctxDone THEN "spawnedLate" ELSE "spawned"]
                    ELSE NoWorker]]
          /\ UNCHANGED resultChan
  /\ UNCHANGED <<engineVars, configs, jobPc, ctxDone, deadlineFired, closeCount,
                 shardVars, wchan, contacted>>
  /\ UNCHANGED <<poolVars, connVars>>
  /\ UNCHANGED sideVars

\* the tag paired with client n in the item's snapshot (tags[i] of sendConfigToAllWorkers)
SnapTag(i, n) ==
  item[i].tags[CHOOSE k \in 1..Len(item[i].clients) : item[i].clients[k] = n]

\* aggregated.go processConfigWithSingleWorker: the workerResult sent for the
\* stream s
singleWorkerResult(i, n, s) ==
  IF FirstTerminal(s, 1) = 0
  THEN workerResult(n, SnapTag(i, n), NilResponse, "no result received")
  ELSE LET result == s[FirstTerminal(s, 1)]
       IN workerResult(n, result.CheckerNodeTag, result, "")

\* an item channel one slot short of the snapshot
WorkerChanShort(i) == Len(item[i].clients) - 1

\* aggregated.go processConfigWithAllWorkers: the capacity of the item's channel,
\* make(chan workerResult, len(clients))
WorkerChanCap(i) == Len(item[i].clients)

\* aggregated.go processConfigWithSingleWorker: client.CheckConfigs fails to start
\* or the range loop runs over the stream's channel; one workerResult is sent on
\* the item's channel (capacity len(clients))
ProcessConfigWithSingleWorker(i, n) ==
  /\ wtask[i][n].pc \in {"spawned", "spawnedLate"}
  /\ contacted' = [contacted EXCEPT ![i] = @ \cup {n}]
  /\ Len(wchan[i]) < WorkerChanCap(i)
  /\ \/ \E err \in StartErrors :
          LET wr == workerResult(n, SnapTag(i, n), NilResponse, err) IN
            /\ wchan' = [wchan EXCEPT ![i] = Append(@, wr)]
            /\ wtask' = [wtask EXCEPT ![i][n].pc = "done", ![i][n].sent = wr]
     \/ \E s \in IF wtask[i][n].pc = "spawned" THEN Streams(i, n) ELSE LateStreams :
          LET wr == singleWorkerResult(i, n, s) IN
            /\ wchan' = [wchan EXCEPT ![i] = Append(@, wr)]
            /\ wtask' = [wtask EXCEPT ![i][n].pc = "done", ![i][n].sent = wr,
                                      ![i][n].stream = Statuses(Received(s))]
  /\ UNCHANGED <<engineVars, jobVars, shardVars, item, semaphore>>
  /\ UNCHANGED <<poolVars, connVars>>
  /\ UNCHANGED sideVars

\* isSuccessfulResult that trusts IsValid alone
isSuccessfulResultValidOnly(r) == r.IsValid

\* aggregated.go isSuccessfulResult
isSuccessfulResult(r) == r.IsValid /\ r.Status = "SUCCESS"

\* a collector that adds the latency of every response to the total
AccumulateEveryLatency(it, wr) ==
  IF wr.err # "" THEN [it EXCEPT !.collected = Append(@, wr.node)]
  ELSE IF wr.result.IsValid /\ wr.result.Status = "SUCCESS"
  THEN [it EXCEPT !.collected = Append(@, wr.node),
                  !.successfulResults = Append(@, wr),
                  !.totalLatency = @ + wr.result.LatencyMs,
                  !.successfulTags = Append(@, wr.result.CheckerNodeTag)]
  ELSE [it EXCEPT !.collected = Append(@, wr.node),
                  !.totalLatency = @ + wr.result.LatencyMs]

\* a collector that records the tag of every outcome
AccumulateEveryTag(it, wr) ==
  IF wr.err # "" THEN [it EXCEPT !.collected = Append(@, wr.node),
                                 !.successfulTags = Append(@, wr.tag)]
  ELSE IF wr.result.IsValid /\ wr.result.Status = "SUCCESS"
  THEN [it EXCEPT !.collected = Append(@, wr.node),
                  !.successfulResults = Append(@, wr),
                  !.totalLatency = @ + wr.result.LatencyMs,
                  !.successfulTags = Append(@, wr.result.CheckerNodeTag)]
  ELSE [it EXCEPT !.collected = Append(@, wr.node),
                  !.successfulTags = Append(@, wr.tag)]

\* aggregated.go collectAndAggregateResults, the body of case result := <-resultChan
Accumulate(it, wr) ==
  IF wr.err # "" THEN [it EXCEPT !.collected = Append(@, wr.node)]
  ELSE IF isSuccessfulResult(wr.result)
  THEN [it EXCEPT !.collected = Append(@, wr.node),
                  !.successfulResults = Append(@, wr),
                  !.totalLatency = @ + wr.result.LatencyMs,
                  !.successfulTags = Append(@, wr.result.CheckerNodeTag)]
  ELSE [it EXCEPT !.collected = Append(@, wr.node)]

\* aggregated.go buildAggregatedResult
buildAggregatedResult(i, config, successfulResults, totalLatency, successfulTags) ==
  IF Len(successfulResults) = 0
  THEN createErrorResult(i, "all workers failed to validate config", config, <<>>)
  ELSE LET baseResult == successfulResults[1].result
           avgLatency == TruncDiv(totalLatency, Len(successfulResults))
       IN CheckResult(i, CheckResultStatusSuccess, "", baseResult.Config,
                      baseResult.Protocol, baseResult.Server, baseResult.CountryCode,
                      baseResult.Remark, avgLatency, successfulTags)

\* a collector whose loop ends at the first outcome
AnyCollected(it) == Len(it.collected) >= 1

\* aggregated.go collectAndAggregateResults: the loop has made len(clients)
\* iterations
AllCollected(it) == Len(it.collected) = Len(it.clients)

\* aggregated.go collectAndAggregateResults, the select takes case result := <-resultChan;
\* after the last pool member the loop ends, buildAggregatedResult runs and the
\* item's goroutine emits the merged result
CollectWorkerResult(i) ==
  /\ item[i].pc = "collecting"
  /\ wchan[i] # <<>>
  /\ wchan' = [wchan EXCEPT ![i] = Tail(@)]
  /\ LET it == Accumulate(item[i], Head(wchan[i])) IN
       IF AllCollected(it)
       THEN /\ EmitMerged(i, it, buildAggregatedResult(i, configs[i], it.successfulResults,
                                                      it.totalLatency, it.successfulTags))
            /\ semaphore' = semaphore - 1
       ELSE /\ item' = [item EXCEPT ![i] = it]
            /\ UNCHANGED <<resultChan, semaphore>>
  /\ UNCHANGED <<engineVars, configs, jobPc, ctxDone, deadlineFired, closeCount,
                 shardVars, wtask, contacted>>
  /\ UNCHANGED <<poolVars, connVars>>
  /\ UNCHANGED sideVars

\* aggregated.go collectAndAggregateResults, the select takes case <-ctx.Done()
CollectTimeout(i) ==
  /\ item[i].pc = "collecting"
  /\ ctxDone
  /\ EmitMerged(i, item[i], createErrorResult(i, "timeout waiting for worker results",
                                              configs[i], item[i].successfulTags))
  /\ semaphore' = semaphore - 1
  /\ UNCHANGED <<engineVars, configs, jobPc, ctxDone, deadlineFired, closeCount,
                 shardVars, wtask, wchan, contacted>>
  /\ UNCHANGED <<poolVars, connVars>>
  /\ UNCHANGED sideVars

\* ------------------------------------------------------------------- Next
Next ==
  \/ ProcessConfigsBegin
  \/ DeadlineFires
  \/ Close
  \/ DistributeConfigsAcrossWorkers
  \/ \E i \in Items : ProcessConfigWithWorker(i)
  \/ CloseAllResults
  \/ ForwardResult
  \/ ProcessConfigsReturn
  \/ ProcessConfigsWithAllWorkers
  \/ \E i \in Items : ProcessConfigWithAllWorkers(i)
  \/ \E i \in Items, n \in Nodes : ProcessConfigWithSingleWorker(i, n)
  \/ \E i \in Items : CollectWorkerResult(i)
  \/ \E i \in Items : CollectTimeout(i)

Spec == Init /\ [][Next]_vars

\* the steps that do not wait for a node: the timer of the job context, the
\* goroutines of the dispatchers, a select with a ready case, and the end of a
\* stream whose context is done (stream.Recv returns the context's error)
Scheduled ==
  \/ ProcessConfigsBegin
  \/ DeadlineFires
  \/ DistributeConfigsAcrossWorkers
  \/ ctxDone /\ \E i \in Items : ProcessConfigWithWorker(i)
  \/ CloseAllResults
  \/ ForwardResult
  \/ ProcessConfigsReturn
  \/ ProcessConfigsWithAllWorkers
  \/ \E i \in Items : ProcessConfigWithAllWorkers(i)
  \/ \E i \in Items : CollectWorkerResult(i) \/ CollectTimeout(i)

\* the jobs termination is checked on
LiveInit == Init /\ Len(configs) * Len(optsNodes) <= MaxLiveFanout

\* the job under the scheduling Go guarantees: a goroutine that can run does run;
\* nothing is assumed of a node before the deadline
LiveSpec == LiveInit /\ [][Next]_vars /\ WF_vars(Scheduled)

\* ------------------------------------------------------ pool life cycle
\* NewGRPCCore has not returned yet
NoEngine ==
  /\ corePc = "new"
  /\ newErr = ""
  /\ clients = <<>>
  /\ clientTags = <<>>
  /\ aggregateMode = FALSE
  /\ maxConcurrent = 1
  /\ timeout = 0
  /\ configs = <<>>

\* a configuration handed to NewGRPCCore; no job runs on the engine
PoolInit ==
  /\ optsNodes \in NodeLists
  /\ optsLegacy \in BOOLEAN
  /\ reachable \in SUBSET (Nodes \cup {LegacyNode})
  /\ NoEngine
  /\ JobFresh
  /\ PoolFresh
  /\ ConnFresh
  /\ SideFresh

\* core.go NewGRPCCore returns the engine or an error
NewGRPCCoreReturns ==
  /\ corePc = "new"
  /\ LET r == NewGRPCCore(optsNodes, optsLegacy, reachable) IN
       /\ clients' = r.clients
       /\ clientTags' = r.tags
       /\ newErr' = r.err
       /\ corePc' = IF r.err = "" THEN "ok" ELSE "failed"
       /\ timeout' = IF r.err = "" THEN EffectiveTimeout(optsTimeout) ELSE timeout
  /\ UNCHANGED <<aggregateMode, maxConcurrent, totalRequests, activeRequests, jobVars,
                 shardVars, replVars, contacted, optsNodes, optsLegacy, reachable,
                 closeRets, connCloses, hc, connVars>>
  /\ UNCHANGED <<statsVars, optsTimeout, jobs, call, botVars>>

\* core.go GRPCCore.HealthCheck, the snapshot taken under the read lock
HealthCheckBegin ==
  /\ corePc = "ok"
  /\ hc.pc = "idle"
  /\ hc' = [hc EXCEPT !.pc = "loop", !.clients = clients, !.tags = clientTags, !.k = 1]
  /\ UNCHANGED <<engineVars, jobVars, shardVars, replVars, contacted, optsNodes,
                 optsLegacy, reachable, corePc, newErr, closeRets, connCloses, connVars>>
  /\ UNCHANGED <<statsVars, sideVars>>

\* a loop that returns at the first unhealthy client
HealthStepShortCircuit(h, err) ==
  [h EXCEPT !.k = IF err # NilErr THEN Len(h.clients) + 1 ELSE @ + 1,
            !.lastErr = IF err # NilErr THEN err ELSE @,
            !.queried = Append(@, h.clients[h.k]),
            !.outcomes = Append(@, err)]

\* core.go GRPCCore.HealthCheck, one iteration of the loop: client.HealthCheck
\* returned err
HealthStep(h, err) ==
  [h EXCEPT !.k = @ + 1,
            !.lastErr = IF err # NilErr THEN err ELSE @,
            !.queried = Append(@, h.clients[h.k]),
            !.outcomes = Append(@, err)]

\* core.go GRPCCore.HealthCheck, the loop over the snapshot: the client is healthy
\* or its HealthCheck returns an error
HealthCheckClient ==
  /\ hc.pc = "loop"
  /\ hc.k <= Len(hc.clients)
  /\ \E err \in {NilErr, HealthErr(hc.clients[hc.k])} : hc' = HealthStep(hc, err)
  /\ UNCHANGED <<engineVars, jobVars, shardVars, replVars, contacted, optsNodes,
                 optsLegacy, reachable, corePc, newErr, closeRets, connCloses, connVars>>
  /\ UNCHANGED <<statsVars, sideVars>>

\* core.go GRPCCore.HealthCheck: return lastErr
HealthCheckReturn ==
  /\ hc.pc = "loop"
  /\ hc.k > Len(hc.clients)
  /\ hc' = [hc EXCEPT !.pc = "done", !.ret = hc.lastErr]
  /\ UNCHANGED <<engineVars, jobVars, shardVars, replVars, contacted, optsNodes,
                 optsLegacy, reachable, corePc, newErr, closeRets, connCloses, connVars>>
  /\ UNCHANGED <<statsVars, sideVars>>

PoolNext ==
  \/ NewGRPCCoreReturns
  \/ HealthCheckBegin
  \/ HealthCheckClient
  \/ HealthCheckReturn
  \/ Close

PoolSpec == PoolInit /\ [][PoolNext]_vars

\* ------------------------------------------------- round-robin selection
\* the errors of core.go GetStats
NoClientsErr == <<"no available checker clients", 0>>
StatsErr(n) == <<"failed to get stats", n>>

\* a cursor read before the increment
SelectIndexBefore(k, n) == (k - 1) % n

\* core.go selectClient: the index computed from the incremented cursor k and
\* the pool length n
SelectIndex(k, n) == k % n

\* core.go GetStats up to the return of selectClient: under the read lock, nil
\* for an empty pool (the cursor is left alone), else the cursor is incremented
\* and the client at the computed index is returned; a nil client ends the call
GetStatsSelect ==
  /\ corePc = "ok"
  /\ Len(gs) < MaxStatsCalls
  /\ IF clients = <<>>
       THEN /\ gs' = Append(gs, [k |-> balanceIndex, pool |-> clients, picked |-> {},
                                 asked |-> {}, pc |-> "done", ret |-> NoClientsErr])
            /\ UNCHANGED balanceIndex
       ELSE /\ balanceIndex' = balanceIndex + 1
            /\ gs' = Append(gs, [k |-> balanceIndex', pool |-> clients,
                                 picked |-> {clients[SelectIndex(balanceIndex',
                                                                 Len(clients)) + 1]},
                                 asked |-> {}, pc |-> "selected", ret |-> NilErr])
  /\ UNCHANGED <<engineVars, jobVars, shardVars, replVars, contacted, optsNodes,
                 optsLegacy, reachable, corePc, newErr, closeRets, connCloses, hc,
                 connVars, sideVars>>

\* core.go GetStats after selectClient: client.GetStats on the selected client
\* answers or fails, and the call returns
GetStatsQuery(j) ==
  /\ gs[j].pc = "selected"
  /\ \E n \in gs[j].picked :
       \E err \in {NilErr, StatsErr(n)} :
          gs' = [gs EXCEPT ![j].asked = @ \cup {n}, ![j].pc = "done", ![j].ret = err]
  /\ UNCHANGED <<engineVars, jobVars, shardVars, replVars, contacted, optsNodes,
                 optsLegacy, reachable, corePc, newErr, closeRets, connCloses, hc,
                 connVars, balanceIndex, sideVars>>

StatsNext ==
  \/ NewGRPCCoreReturns
  \/ GetStatsSelect
  \/ \E j \in 1..Len(gs) : GetStatsQuery(j)
  \/ Close

\* a configuration of reachable nodes handed to NewGRPCCore
StatsInit == PoolInit /\ reachable = Nodes \cup {LegacyNode}

StatsSpec == StatsInit /\ [][StatsNext]_vars

\* ------------------------------------------------ concurrent job counters
\* the deferred calls run in the order they were registered
DeferOrderRegistered == <<"close", "decrement", "cancel">>

\* core.go processConfigs: its deferred calls in the order they run (last
\* registered first): cancel(), activeRequests.Add(-1), close(resultChan)
DeferOrder == <<"cancel", "decrement", "close">>

\* core.go CheckConfigs: the result stream is made and the goroutine started
JobSpawn(j) ==
  /\ corePc = "ok"
  /\ jobs[j].pc = "idle"
  /\ jobs' = [jobs EXCEPT ![j].pc = "spawned"]
  /\ UNCHANGED <<engineVars, jobVars, shardVars, replVars, contacted, poolVars, connVars,
                 optsTimeout, timeout, call, botVars>>

\* core.go processConfigs: g.totalRequests.Add(1)
JobTotal(j) ==
  /\ jobs[j].pc = "spawned"
  /\ totalRequests' = totalRequests + 1
  /\ jobs' = [jobs EXCEPT ![j].pc = "counted"]
  /\ UNCHANGED <<aggregateMode, maxConcurrent, clients, clientTags, activeRequests,
                 jobVars, shardVars, replVars, contacted, poolVars, connVars,
                 optsTimeout, timeout, call, botVars>>

\* core.go processConfigs: g.activeRequests.Add(1)
JobActive(j) ==
  /\ jobs[j].pc = "counted"
  /\ activeRequests' = activeRequests + 1
  /\ jobs' = [jobs EXCEPT ![j].pc = "active"]
  /\ UNCHANGED <<aggregateMode, maxConcurrent, clients, clientTags, totalRequests,
                 jobVars, shardVars, replVars, contacted, poolVars, connVars,
                 optsTimeout, timeout, call, botVars>>

\* core.go processConfigs: context.WithTimeout(context.Background(), g.timeout)
JobContext(j) ==
  /\ jobs[j].pc = "active"
  /\ jobs' = [jobs EXCEPT ![j].pc = "running", ![j].deadline = timeout]
  /\ UNCHANGED <<engineVars, jobVars, shardVars, replVars, contacted, poolVars, connVars,
                 optsTimeout, timeout, call, botVars>>

\* core.go processConfigs: the dispatcher of the mode returns
JobDispatched(j) ==
  /\ jobs[j].pc = "running"
  /\ jobs' = [jobs EXCEPT ![j].pc = "deferred", ![j].deferred = 1]
  /\ UNCHANGED <<engineVars, jobVars, shardVars, replVars, contacted, poolVars, connVars,
                 optsTimeout, timeout, call, botVars>>

\* core.go processConfigs: the next deferred call runs
JobDeferred(j) ==
  /\ jobs[j].pc = "deferred"
  /\ LET f == DeferOrder[jobs[j].deferred]
         last == jobs[j].deferred = Len(DeferOrder) IN
       /\ jobs' = [jobs EXCEPT ![j].pc = IF last THEN "returned" ELSE @,
                               ![j].deferred = @ + 1,
                               ![j].cancelled = @ \/ f = "cancel",
                               ![j].decremented = @ \/ f = "decrement",
                               ![j].closed = @ \/ f = "close"]
       /\ activeRequests' = IF f = "decrement" THEN activeRequests - 1 ELSE activeRequests
  /\ UNCHANGED <<aggregateMode, maxConcurrent, clients, clientTags, totalRequests,
                 jobVars, shardVars, replVars, contacted, poolVars, connVars,
                 optsTimeout, timeout, call, botVars>>

JobsNext ==
  \/ NewGRPCCoreReturns
  \/ \E j \in Jobs :
       \/ JobSpawn(j)
       \/ JobTotal(j)
       \/ JobActive(j)
       \/ JobContext(j)
       \/ JobDispatched(j)
       \/ JobDeferred(j)

\* a configuration of one reachable node and any timeout handed to NewGRPCCore
JobsInit ==
  /\ optsNodes = <<1>>
  /\ optsLegacy = FALSE
  /\ reachable = Nodes \cup {LegacyNode}
  /\ optsTimeout \in Timeouts
  /\ jobs = [j \in Jobs |-> NoJob]
  /\ call = NoStream
  /\ BotsFresh
  /\ NoEngine
  /\ JobFresh
  /\ PoolFresh
  /\ ConnFresh

JobsSpec == JobsInit /\ [][JobsNext]_vars

\* ------------------------------------------------------- one Check stream
\* everything a step of the Check stream leaves alone
otherThanCall == <<engineVars, jobVars, shardVars, replVars, contacted, poolVars,
                   connVars, optsTimeout, timeout, jobs, botVars>>

\* client.go CheckConfigs: the capacity of the result channel
CallChanCap(c) == c.n * configCheckBuffer

\* client.go CheckConfigs: ensureConnected or the creation of the stream fails
\* and no channel is returned, or the channel is made and the two tasks started
CheckConfigsStart ==
  /\ call.pc = "none"
  /\ \E r \in {"", "not connected", "no stream"} :
       call' = IF r = ""
               THEN [call EXCEPT !.pc = "started", !.spc = "loop", !.i = 1, !.rpc = "recv"]
               ELSE [call EXCEPT !.pc = "failed", !.ret = r]
  /\ UNCHANGED otherThanCall

\* the context of the call is cancelled or its deadline passes
CtxCancel ==
  /\ call.pc = "started"
  /\ ~call.ctxDone
  /\ call' = [call EXCEPT !.ctxDone = TRUE]
  /\ UNCHANGED otherThanCall

\* client.go sendConfigs: the return of the send task, with its deferred
\* stream.CloseSend()
SendExit(c, reason) ==
  [c EXCEPT !.spc = "exited", !.sexit = reason, !.closeSends = @ + 1]

\* a send task that carries on after a failed Send
AfterSendContinue(c, ok) ==
  [c EXCEPT !.i = @ + 1, !.sendCalls = @ + 1,
            !.failedAt = IF ok \/ @ # 0 THEN @ ELSE c.sendCalls + 1]

\* client.go sendConfigs: stream.Send returned; an error ends the task
AfterSend(c, ok) ==
  IF ok THEN [c EXCEPT !.i = @ + 1, !.sendCalls = @ + 1]
  ELSE SendExit([c EXCEPT !.sendCalls = @ + 1, !.failedAt = c.sendCalls + 1], "send error")

\* client.go sendConfigs, one iteration of the loop: the task returns when the
\* configs are exhausted or the context is done, else it sends the next config
SendStep ==
  /\ call.spc = "loop"
  /\ IF call.i > call.n THEN call' = SendExit(call, "all sent")
     ELSE IF call.ctxDone THEN call' = SendExit(call, "ctx")
     ELSE \E ok \in BOOLEAN : call' = AfterSend(call, ok)
  /\ UNCHANGED otherThanCall

\* the node answers a request it has received
ServerResponds ==
  /\ call.pc = "started"
  /\ ~call.serverDone
  /\ call.sendCalls - (IF call.failedAt # 0 THEN 1 ELSE 0) >= 1
  /\ call.produced < MaxResponses
  /\ call' = [call EXCEPT !.produced = @ + 1, !.wire = Append(@, call.produced + 1)]
  /\ UNCHANGED otherThanCall

\* the node ends the stream
ServerEnds ==
  /\ call.pc = "started"
  /\ ~call.serverDone
  /\ call' = [call EXCEPT !.serverDone = TRUE]
  /\ UNCHANGED otherThanCall

\* a receive task that leaves the channel open when the context is done
RecvExitOpenOnCancel(c, reason) ==
  [c EXCEPT !.rpc = "exited", !.rexit = reason,
            !.closes = IF reason = "ctx" THEN @ ELSE @ + 1]

\* client.go receiveResponses: the return of the receive task, with its
\* deferred close(resultChan)
RecvExit(c, reason) ==
  [c EXCEPT !.rpc = "exited", !.rexit = reason, !.closes = @ + 1]

\* client.go receiveResponses, stream.Recv: a response, io.EOF once the node
\* ended the stream and nothing is in flight, or an error
RecvStep ==
  /\ call.rpc = "recv"
  /\ \/ /\ call.wire # <<>>
        /\ call' = [call EXCEPT !.rpc = "forward", !.holding = Head(call.wire),
                                !.wire = Tail(@), !.received = @ + 1]
     \/ /\ call.wire = <<>>
        /\ call.serverDone
        /\ call' = RecvExit(call, "eof")
     \/ call' = RecvExit(call, "recv error")
  /\ UNCHANGED otherThanCall

\* a select that watches the context only while no response is in hand
CtxCaseIdleOnly(c) == c.ctxDone /\ c.holding = 0

\* client.go receiveResponses, the select: case <-ctx.Done()
CtxCase(c) == c.ctxDone

\* client.go receiveResponses, the select: the response is sent on the result
\* channel when it has room, or the task returns when the context is done
ForwardStep ==
  /\ call.rpc = "forward"
  /\ \/ /\ Len(call.resultChan) < CallChanCap(call)
        /\ call' = [call EXCEPT !.rpc = "recv", !.holding = 0,
                                !.resultChan = Append(@, call.holding),
                                !.forwarded = @ + 1,
                                !.lateForwards = IF call.failedAt # 0 THEN @ + 1 ELSE @,
                                !.sendOnClosed = @ \/ call.closes > 0]
     \/ /\ CtxCase(call)
        /\ call' = RecvExit([call EXCEPT !.holding = 0, !.dropped = @ + 1], "ctx")
  /\ UNCHANGED otherThanCall

\* the caller takes a response from the result channel
ConsumerReads ==
  /\ call.resultChan # <<>>
  /\ call' = [call EXCEPT !.resultChan = Tail(@),
                          !.delivered = Append(@, Head(call.resultChan))]
  /\ UNCHANGED otherThanCall

StreamNext ==
  \/ CheckConfigsStart
  \/ CtxCancel
  \/ SendStep
  \/ ServerResponds
  \/ ServerEnds
  \/ RecvStep
  \/ ForwardStep
  \/ ConsumerReads

\* a connected CheckerClient about to be handed a batch of configs
StreamInit ==
  /\ call \in {[NoStream EXCEPT !.n = n] : n \in 1..MaxStreamItems}
  /\ optsTimeout = 0
  /\ jobs = [j \in Jobs |-> NoJob]
  /\ BotsFresh
  /\ optsNodes = <<>>
  /\ optsLegacy = FALSE
  /\ reachable = {}
  /\ NoEngine
  /\ JobFresh
  /\ PoolFresh
  /\ ConnFresh

StreamSpec == StreamInit /\ [][StreamNext]_vars

\* ------------------------------------------------- teardown after cancel
\* the steps of the two stream tasks once the context of the call is done: the
\* send loop sees ctx.Done(), stream.Recv returns what is in flight or the
\* context's error, and the select of the receive task has a ready case or not;
\* neither the node nor the consumer is assumed to do anything
StreamScheduled == call.ctxDone /\ (SendStep \/ RecvStep \/ ForwardStep)

\* the per-node tasks of replicated mode once the context of the job is done:
\* CheckConfigs returns, or the stream's channel is closed by the receive task
\* and the range loop ends
Teardown == ctxDone /\ \E i \in Items, n \in Nodes : ProcessConfigWithSingleWorker(i, n)

\* a job of the engine, or one Check stream of a client
TeardownInit == LiveInit \/ StreamInit

TeardownNext ==
  \/ corePc # "new" /\ Next
  \/ corePc = "new" /\ StreamNext

\* jobs and streams under the scheduling Go guarantees: a goroutine that can
\* run does run; nothing is assumed of a node or of the reader of a channel
TeardownSpec ==
  /\ TeardownInit
  /\ [][TeardownNext]_vars
  /\ WF_vars(corePc # "new" /\ Scheduled)
  /\ WF_vars(corePc # "new" /\ Teardown)
  /\ WF_vars(corePc = "new" /\ StreamScheduled)

\* ----------------------------------------------------- Telegram bot pool
\* everything a call on the bot pool leaves alone
otherThanBots == <<engineVars, jobVars, shardVars, replVars, contacted, poolVars,
                   connVars, optsTimeout, timeout, jobs, call>>

\* the bots stored in the map m
BotsOf(m) == {m[n] : n \in DOMAIN m}

\* the map m with bot b stored under its name
PutBot(m, b) == [n \in DOMAIN m \cup {b.Name} |-> IF n = b.Name THEN b ELSE m[n]]

\* the lists a range over the map m can build: every order of its values
MapOrders(m) ==
  {s \in [1..Cardinality(DOMAIN m) -> BotsOf(m)] :
     \A a, b \in DOMAIN s : a # b => s[a].Name # s[b].Name}

\* part_003 AddBot: t.botsList = append(t.botsList, bot)
AddToList(list, b) == Append(list, b)

\* part_003 AddBot
AddBot(name, token) ==
  /\ Len(botsList) < MaxBots
  /\ bots' = PutBot(bots, TelegramBot(name, token))
  /\ botsList' = AddToList(botsList, TelegramBot(name, token))
  /\ UNCHANGED <<currentBot, nextBot>>
  /\ UNCHANGED otherThanBots

\* part_003 RemoveBot: an unknown name changes nothing, else the entry is
\* deleted and the list rebuilt by a range over the map
RemoveBot(name) ==
  /\ IF name \notin DOMAIN bots THEN UNCHANGED <<bots, botsList>>
     ELSE /\ bots' = [n \in DOMAIN bots \ {name} |-> bots[n]]
          /\ botsList' \in MapOrders(bots')
  /\ UNCHANGED <<currentBot, nextBot>>
  /\ UNCHANGED otherThanBots

\* part_003 ClearBots
ClearBots ==
  /\ bots' = <<>>
  /\ botsList' = <<>>
  /\ currentBot' = 0
  /\ UNCHANGED nextBot
  /\ UNCHANGED otherThanBots

\* part_003 getNextBot: the fallback bot for an empty list, the only bot of a
\* list of one, else the bot at (current - 1) % len after the increment
getNextBot ==
  /\ currentBot < MaxPicks
  /\ IF Len(botsList) = 0
     THEN /\ nextBot' = [bot |-> TelegramBot("fallback", "t1"), listed |-> TRUE]
          /\ UNCHANGED currentBot
     ELSE IF Len(botsList) = 1
     THEN /\ nextBot' = [bot |-> botsList[1], listed |-> botsList[1] \in BotsOf(bots)]
          /\ UNCHANGED currentBot
     ELSE /\ currentBot' = currentBot + 1
          /\ LET b == botsList[((currentBot' - 1) % Len(botsList)) + 1] IN
               nextBot' = [bot |-> b, listed |-> b \in BotsOf(bots)]
  /\ UNCHANGED <<bots, botsList>>
  /\ UNCHANGED otherThanBots

BotsNext ==
  \/ \E name \in BotNames, token \in BotTokens : AddBot(name, token)
  \/ \E name \in BotNames : RemoveBot(name)
  \/ ClearBots
  \/ getNextBot

\* part_003 NewTelegram: the primary bot is added when a token is given
BotsInit ==
  /\ \E primary \in BOOLEAN :
       /\ bots = IF primary THEN PutBot(<<>>, TelegramBot("primary", "t1")) ELSE <<>>
       /\ botsList = IF primary THEN AddToList(<<>>, TelegramBot("primary", "t1")) ELSE <<>>
  /\ currentBot = 0
  /\ nextBot = NoBot
  /\ optsTimeout = 0
  /\ jobs = [j \in Jobs |-> NoJob]
  /\ call = NoStream
  /\ optsNodes = <<>>
  /\ optsLegacy = FALSE
  /\ reachable = {}
  /\ NoEngine
  /\ JobFresh
  /\ PoolFresh
  /\ ConnFresh

BotsSpec == BotsInit /\ [][BotsNext]_vars

\* ------------------------------------------- CheckerClient state machine
\* the CheckerClient NewCheckerClient returned (connected, or not when its connect
\* failed) and the goroutines that will call into it; no engine is involved
ConnInit ==
  /\ \E ok \in BOOLEAN :
       /\ cc = NewClient(ok)
       /\ channels = IF ok THEN <<[open |-> TRUE, closes |-> 0]>> ELSE <<>>
  /\ caller = [c \in Callers |-> NoCall]
  /\ optsNodes = <<>>
  /\ optsLegacy = FALSE
  /\ reachable = {}
  /\ NoEngine
  /\ JobFresh
  /\ PoolFresh
  /\ SideFresh

\* a lock that excludes nobody
MuFreeAlways == TRUE

\* client.go c.mu: Lock and RLock return only while no goroutine holds the
\* write lock
MuFree == cc.mu = 0

\* the error grpc.ClientConn.Close returns on a channel already closed
ErrClientConnClosing == "grpc: the client connection is closing"

\* client.go connect, from c.mu.Lock() to the call of createConnection: a
\* connected client returns at once
ConnectLock(c) ==
  /\ caller[c].pc = "idle"
  /\ MuFree
  /\ IF cc.connected
     THEN /\ caller' = [caller EXCEPT ![c].op = "connect", ![c].pc = "done"]
          /\ UNCHANGED cc
     ELSE /\ caller' = [caller EXCEPT ![c].op = "connect", ![c].pc = "connecting"]
          /\ cc' = [cc EXCEPT !.mu = c]
  /\ UNCHANGED channels
  /\ UNCHANGED <<engineVars, jobVars, shardVars, replVars, contacted, poolVars, sideVars>>

\* client.go connect, from createConnection to the return: the new channel is
\* stored and connected set, or the error is returned; the lock is released
ConnectCreate(c) ==
  /\ caller[c].pc = "connecting"
  /\ \E ok \in BOOLEAN :
       IF ok
       THEN /\ channels' = Append(channels, [open |-> TRUE, closes |-> 0])
            /\ cc' = [cc EXCEPT !.conn = Len(channels) + 1, !.connected = TRUE, !.mu = 0]
            /\ caller' = [caller EXCEPT ![c].pc = "done", ![c].ret = "",
                                        ![c].attempts = @ + 1,
                                        ![c].made = Len(channels) + 1]
       ELSE /\ cc' = [cc EXCEPT !.mu = 0]
            /\ caller' = [caller EXCEPT
                  ![c].pc = "done", ![c].attempts = @ + 1,
                  ![c].ret = "failed to connect to checker service"]
            /\ UNCHANGED channels
  /\ UNCHANGED <<engineVars, jobVars, shardVars, replVars, contacted, poolVars, sideVars>>

\* client.go ensureConnected (called first by CheckConfigs, HealthCheck and
\* GetStats): the check of c.connected under the read lock; reconnect is the
\* next call of the goroutine when the client is not connected
EnsureConnected(c) ==
  /\ caller[c].pc = "idle"
  /\ MuFree
  /\ caller' = [caller EXCEPT
        ![c].op = "ensureConnected",
        ![c].pc = IF cc.connected THEN "done" ELSE "slow",
        ![c].with = IF cc.connected THEN {}
                    ELSE {d \in Callers : caller[d].pc \in {"slow", "lockWait", "creating"}}]
  /\ UNCHANGED <<cc, channels>>
  /\ UNCHANGED <<engineVars, jobVars, shardVars, replVars, contacted, poolVars>>
  /\ UNCHANGED sideVars

\* client.go CheckConfigs, HealthCheck, GetStats after ensureConnected returned
\* nil: the stream is opened or the unary call made on c.client, which is read
\* without the lock
IssueRPC(c) ==
  /\ caller[c].op = "ensureConnected"
  /\ caller[c].pc = "done"
  /\ caller[c].ret = ""
  /\ ~caller[c].rpc.issued
  /\ caller' = [caller EXCEPT ![c].rpc =
        [issued |-> TRUE, conn |-> cc.conn, connected |-> cc.connected,
         open |-> channels[cc.conn].open, replacing |-> cc.mu # 0]]
  /\ UNCHANGED <<cc, channels>>
  /\ UNCHANGED <<engineVars, jobVars, shardVars, replVars, contacted, poolVars, sideVars>>

\* client.go ensureConnected: return c.reconnect(); the goroutine arrives at
\* c.mu.Lock()
ReconnectStart(c) ==
  /\ caller[c].pc = "slow"
  /\ caller' = [caller EXCEPT ![c].pc = "lockWait", ![c].inFlight = cc.mu # 0]
  /\ UNCHANGED <<cc, channels>>
  /\ UNCHANGED <<engineVars, jobVars, shardVars, replVars, contacted, poolVars>>
  /\ UNCHANGED sideVars

\* client.go reconnect, from c.mu.Lock() to the call of createConnection: the
\* reconnecting check, the flag, the teardown of the channel held
ReconnectLock(c) ==
  /\ caller[c].pc = "lockWait"
  /\ MuFree
  /\ IF cc.reconnecting
     THEN /\ caller' = [caller EXCEPT ![c].pc = "done", ![c].ret = "already reconnecting"]
          /\ UNCHANGED <<cc, channels>>
     ELSE /\ cc' = [cc EXCEPT !.mu = c, !.reconnecting = TRUE,
                              !.connected = IF cc.conn # 0 THEN FALSE ELSE @]
          /\ channels' = IF cc.conn # 0
                         THEN [channels EXCEPT ![cc.conn].open = FALSE,
                                               ![cc.conn].closes = @ + 1]
                         ELSE channels
          /\ caller' = [caller EXCEPT
                ![c].pc = "creating",
                ![c].tornDown = IF cc.conn # 0 THEN @ \cup {cc.conn} ELSE @]
  /\ UNCHANGED <<engineVars, jobVars, shardVars, replVars, contacted, poolVars>>
  /\ UNCHANGED sideVars

\* client.go reconnect, from createConnection to the return: the new channel is
\* stored and connected set, or the error is returned; the deferred calls clear
\* reconnecting and release the lock
ReconnectCreate(c) ==
  /\ caller[c].pc = "creating"
  /\ \E ok \in BOOLEAN :
       IF ok
       THEN /\ channels' = Append(channels, [open |-> TRUE, closes |-> 0])
            /\ cc' = [cc EXCEPT !.conn = Len(channels) + 1, !.connected = TRUE,
                                !.reconnecting = FALSE, !.mu = 0]
            /\ caller' = [caller EXCEPT ![c].pc = "done", ![c].ret = "",
                                        ![c].attempts = @ + 1,
                                        ![c].made = Len(channels) + 1]
       ELSE /\ cc' = [cc EXCEPT !.reconnecting = FALSE, !.mu = 0]
            /\ caller' = [caller EXCEPT
                  ![c].pc = "done", ![c].attempts = @ + 1,
                  ![c].ret = "failed to reconnect to checker service"]
            /\ UNCHANGED channels
  /\ UNCHANGED <<engineVars, jobVars, shardVars, replVars, contacted, poolVars>>
  /\ UNCHANGED sideVars

\* client.go CheckerClient.Close: under the lock, conn.Close is called on the
\* channel held, if any, and connected cleared; conn.Close may return an error,
\* and does on a channel that is closed already
CloseClient(c) ==
  /\ caller[c].pc = "idle"
  /\ MuFree
  /\ IF cc.conn # 0
     THEN /\ channels' = [channels EXCEPT ![cc.conn].open = FALSE,
                                          ![cc.conn].closes = @ + 1]
          /\ cc' = [cc EXCEPT !.connected = FALSE]
          /\ \E err \in IF channels[cc.conn].open THEN {"", "close failed"}
                          ELSE {ErrClientConnClosing} :
               caller' = [caller EXCEPT ![c].op = "Close", ![c].pc = "done",
                                        ![c].ret = err, ![c].tornDown = {cc.conn}]
     ELSE /\ caller' = [caller EXCEPT ![c].op = "Close", ![c].pc = "done"]
          /\ UNCHANGED <<cc, channels>>
  /\ UNCHANGED <<engineVars, jobVars, shardVars, replVars, contacted, poolVars>>
  /\ UNCHANGED sideVars

ConnNext ==
  \/ \E c \in Callers : ConnectLock(c)
  \/ \E c \in Callers : ConnectCreate(c)
  \/ \E c \in Callers : EnsureConnected(c)
  \/ \E c \in Callers : ReconnectStart(c)
  \/ \E c \in Callers : ReconnectLock(c)
  \/ \E c \in Callers : ReconnectCreate(c)
  \/ \E c \in Callers : CloseClient(c)
  \/ \E c \in Callers : IssueRPC(c)

ConnSpec == ConnInit /\ [][ConnNext]_vars
\* ================================================================ claims
\* the results sent so far that stand for item i
Emitted(ch, i) == {k \in 1..Len(ch) : ch[k].idx = i}

\* the result on the stream that stands for item i
ResultFor(i) == resultChan[CHOOSE k \in 1..Len(resultChan) : resultChan[k].idx = i]

\* the wire statuses that are progress markers
Markers == {"PENDING", "CHECKING"}

\* position of the first status of st that is no progress marker, 0 if none
RECURSIVE FirstFinal(_, _)
FirstFinal(st, k) ==
  IF k > Len(st) THEN 0 ELSE IF st[k] \notin Markers THEN k ELSE FirstFinal(st, k + 1)

\* item i was finalized by the reduce step: the collector has the outcome of
\* every member of its snapshot
Built(i) ==
  /\ aggregateMode
  /\ item[i].pc = "done"
  /\ item[i].clients # <<>>
  /\ Len(item[i].collected) = Len(item[i].clients)

\* member n delivered validity together with status SUCCESS for item i
MemberSucceeded(i, n) ==
  /\ wtask[i][n].pc = "done"
  /\ wtask[i][n].sent.err = ""
  /\ wtask[i][n].sent.result.IsValid
  /\ wtask[i][n].sent.result.Status = "SUCCESS"

Succeeded(i) == {n \in Range(item[i].clients) : MemberSucceeded(i, n)}

RECURSIVE LatencySum(_, _)
LatencySum(i, S) ==
  IF S = {} THEN 0
  ELSE LET n == CHOOSE x \in S : TRUE
       IN wtask[i][n].sent.result.LatencyMs + LatencySum(i, S \ {n})

\* C1: in sharded mode the closed result stream carries exactly one CheckResult
\* per submitted item, whatever the nodes do.
C1_ShardedExactlyOne ==
  (~aggregateMode /\ closeCount >= 1) =>
     /\ Len(resultChan) = Len(configs)
     /\ \A i \in Items : Cardinality(Emitted(resultChan, i)) = 1

\* C2: in replicated mode no item ever has more than one merged CheckResult on
\* the result stream, and once the stream is closed every item has exactly one.
C2_ReplicatedExactlyOne ==
  aggregateMode =>
     /\ \A i \in Items : Cardinality(Emitted(resultChan, i)) <= 1
     /\ closeCount >= 1 =>
          /\ Len(resultChan) = Len(configs)
          /\ \A i \in Items : Cardinality(Emitted(resultChan, i)) = 1

\* C2 witness: a closed replicated job of two items, one merged to Success and
\* one finalized by the deadline.
C2_Witness ==
  /\ aggregateMode
  /\ closeCount = 1
  /\ Len(configs) = 2
  /\ \E i, j \in Items :
       /\ Emitted(resultChan, i) # {} /\ Emitted(resultChan, j) # {}
       /\ ResultFor(i).Status = CheckResultStatusSuccess
       /\ ResultFor(j).Error = "timeout waiting for worker results"

\* C3: the result stream is closed at most once, only when every per-item task of
\* the dispatcher has finished and everything was forwarded, and nothing is sent
\* on it after the close.
C3_ClosedOnceAfterJoin ==
  /\ [](/\ closeCount <= 1
        /\ closeCount = 1 =>
             /\ \A i \in Items : task[i].pc \in {"none", "done"}
             /\ \A i \in Items : item[i].pc \in {"none", "done"}
             /\ allResults = <<>>)
  /\ [][closeCount >= 1 => (resultChan' = resultChan /\ closeCount' = closeCount)]_vars

\* C3 witness: a sharded job of three items whose tasks all ran, closed.
C3_Witness ==
  /\ ~aggregateMode
  /\ closeCount = 1
  /\ Len(configs) = 3
  /\ \A i \in Items : task[i].pc = "done"
  /\ Len(resultChan) = 3

\* C4: in sharded mode the item at (0-based) index i is sent to the node at
\* snapshot index i mod N and to no other node.
C4_ShardRouting ==
  ~aggregateMode =>
    \A i \in Items :
      IF task[i].pc = "done"
      THEN contacted[i] = {snap.clients[((i - 1) % Len(snap.clients)) + 1]}
      ELSE contacted[i] = {}

\* C4 witness: three items over a pool of two, the third wraps to the first node.
C4_Witness ==
  /\ ~aggregateMode
  /\ Len(configs) = 3
  /\ Len(snap.clients) = 2
  /\ contacted = <<{1}, {2}, {1}>>

C6_TruncatedMean ==
  \A i \in Items :
    (Built(i) /\ ResultFor(i).Status = CheckResultStatusSuccess) =>
       /\ Succeeded(i) # {}
       /\ ResultFor(i).RealDelay = LatencySum(i, Succeeded(i)) \div Cardinality(Succeeded(i))

\* C6 witness: successes at 201 ms and 200 ms beside a TIMEOUT response that
\* carries a latency of its own give 200 ms (401 / 2, truncated).
C6_Witness ==
  \E i \in Items :
    /\ Built(i)
    /\ Len(item[i].clients) = 3
    /\ Cardinality(Succeeded(i)) = 2
    /\ LatencySum(i, Succeeded(i)) = 401
    /\ \E n \in Range(item[i].clients) :
         wtask[i][n].sent.result.Status = "TIMEOUT" /\ wtask[i][n].sent.result.LatencyMs > 0
    /\ ResultFor(i).RealDelay = 200

\* the members of s that succeeded for item i, in the order of s
SucceededIn(i, s) == SelectSeq(s, LAMBDA n : MemberSucceeded(i, n))

\* C7: the node-tag list of a merged Success holds one entry per successful
\* member, the tag that member reported, and nothing else.
C7_TagsOfSuccessful ==
  \A i \in Items :
    (Built(i) /\ ResultFor(i).Status = CheckResultStatusSuccess) =>
       LET ok == SucceededIn(i, item[i].collected)
       IN ResultFor(i).CheckerNodeTag =
            [k \in 1..Len(ok) |-> wtask[i][ok[k]].sent.result.CheckerNodeTag]

\* C7 witness: two successful members and one that failed to start; two tags.
C7_Witness ==
  \E i \in Items :
    /\ Built(i)
    /\ Len(item[i].clients) = 3
    /\ Cardinality(Succeeded(i)) = 2
    /\ \E n \in Range(item[i].clients) : wtask[i][n].sent.err # ""
    /\ Len(ResultFor(i).CheckerNodeTag) = 2

\* C8: when every member has reported and none succeeded, the merged result is
\* Error with the fixed message, the submitted item text and no tag.
C8_AllFailed ==
  \A i \in Items :
    (Built(i) /\ Succeeded(i) = {}) =>
       /\ ResultFor(i).Status = CheckResultStatusError
       /\ ResultFor(i).Error = "all workers failed to validate config"
       /\ ResultFor(i).Raw = configs[i]
       /\ ResultFor(i).CheckerNodeTag = <<>>

\* C8 witness: SUCCESS without validity, a TIMEOUT response and a start failure.
C8_Witness ==
  \E i \in Items :
    /\ Built(i)
    /\ Succeeded(i) = {}
    /\ Len(item[i].clients) = 3
    /\ wtask[i][1].sent.result.Status = "SUCCESS"
    /\ wtask[i][2].sent.result.Status = "TIMEOUT"
    /\ wtask[i][3].sent.err \in StartErrors

\* C9: an item for which the deadline fired before every member had reported is
\* finalized as the timeout Error carrying the tags of the successes collected
\* so far, never as Success.
C9_DeadlineFinalizesAsTimeout ==
  \A i \in Items :
    (aggregateMode /\ item[i].pc = "done" /\ item[i].late /\ item[i].clients # <<>>) =>
       /\ ResultFor(i).Status = CheckResultStatusError
       /\ ResultFor(i).Error = "timeout waiting for worker results"
       /\ ResultFor(i).CheckerNodeTag = item[i].successfulTags

\* C10, one stream: st are the statuses the task took from the stream, r the
\* response it used: never a progress marker, and the first response that is none
UsesFirstTerminal(st, r) ==
  /\ r.Status \notin Markers
  /\ FirstFinal(st, 1) = 0 => r = NilResponse
  /\ FirstFinal(st, 1) > 0 => (FirstFinal(st, 1) = Len(st) /\ r.Status = st[Len(st)])

\* C10: progress markers are never surfaced and only the first terminal response
\* of a stream is used, so the item gets one CheckResult, in both modes.
C10_NonTerminalFiltered ==
  /\ \A i \in Items : Cardinality(Emitted(allResults \o resultChan, i)) <= 1
  /\ \A i \in Items :
       task[i].pc = "done" =>
          /\ UsesFirstTerminal(task[i].stream, task[i].sent)
          /\ FirstFinal(task[i].stream, 1) > 0 =>
               /\ Cardinality(Emitted(allResults \o resultChan, i)) = 1
               /\ \A k \in Emitted(allResults \o resultChan, i) :
                    (allResults \o resultChan)[k] =
                       [convertToCheckResult(i, task[i].sent) EXCEPT
                          !.CheckerNodeTag = <<task[i].sent.CheckerNodeTag>>]
  /\ \A i \in Items, n \in Nodes :
       wtask[i][n].pc = "done" =>
          /\ UsesFirstTerminal(wtask[i][n].stream, wtask[i][n].sent.result)
          /\ FirstFinal(wtask[i][n].stream, 1) > 0 => wtask[i][n].sent.err = ""
  /\ \A i \in Items : item[i].pc = "done" => Cardinality(Emitted(resultChan, i)) = 1

\* C10 witness: a sharded stream of PENDING, CHECKING, SUCCESS gave one Success.
C10_Witness ==
  /\ ~aggregateMode
  /\ closeCount = 1
  /\ task[1].stream = <<"PENDING", "CHECKING", "SUCCESS">>
  /\ Len(resultChan) = 1
  /\ resultChan[1].Status = CheckResultStatusSuccess

\* the clients of the configuration that accept a connection, in configured order
Connected ==
  IF optsNodes # <<>> THEN SelectSeq(optsNodes, LAMBDA n : n \in reachable)
  ELSE IF optsLegacy /\ LegacyNode \in reachable THEN <<LegacyNode>>
  ELSE <<>>

\* C13: Close closes every pooled connection once and empties the pool; a further
\* Close closes no connection and returns no error.
C13_IdempotentClose ==
  Len(closeRets) >= 1 =>
     /\ clients = <<>>
     /\ clientTags = <<>>
     /\ \A n \in DOMAIN connCloses :
          connCloses[n] = IF n \in Range(Connected) THEN 1 ELSE 0
     /\ \A k \in 2..Len(closeRets) : closeRets[k] = NilErr

\* C13 witness: a pool of three closed twice; the first Close returned the error
\* of its second client.
C13_Witness ==
  /\ Len(closeRets) = 2
  /\ Len(Connected) = 3
  /\ closeRets[1] = CloseErr(Connected[2])
  /\ closeRets[2] = NilErr

\* C15: construction yields the pool of the nodes that connected, in configured
\* order, with a parallel tag list, and fails iff that pool is empty.
C15_PoolOfConnected ==
  (corePc # "new" /\ closeRets = <<>>) =>
     /\ clients = Connected
     /\ Len(clientTags) = Len(clients)
     /\ \A k \in 1..Len(clients) :
          k <= Len(clientTags) =>
             clientTags[k] = IF clients[k] = LegacyNode THEN LegacyTag ELSE NodeTag(clients[k])
     /\ newErr # "" <=> clients = <<>>
     /\ corePc = "failed" <=> newErr # ""

\* C15 witness: nodes 3, 1, 2 configured, node 1 refuses; the pool is 3, 2.
C15_Witness ==
  /\ corePc = "ok"
  /\ optsNodes = <<3, 1, 2>>
  /\ 1 \notin reachable
  /\ clients = <<3, 2>>
  /\ clientTags = <<NodeTag(3), NodeTag(2)>>

\* C16: HealthCheck queries every client of its snapshot, returns nil iff all are
\* healthy and otherwise the error of the last unhealthy client in pool order.
C16_HealthCheckAll ==
  hc.pc = "done" =>
     /\ hc.queried = hc.clients
     /\ hc.ret = NilErr <=> (\A k \in 1..Len(hc.outcomes) : hc.outcomes[k] = NilErr)
     /\ \A k \in 1..Len(hc.outcomes) :
          (/\ hc.outcomes[k] # NilErr
           /\ \A j \in (k + 1)..Len(hc.outcomes) : hc.outcomes[j] = NilErr)
          => hc.ret = hc.outcomes[k]

\* C16 witness: a snapshot of three; the first two clients are unhealthy, the
\* third is healthy; the pool was closed meanwhile.
C16_Witness ==
  /\ hc.pc = "done"
  /\ Len(hc.clients) = 3
  /\ hc.outcomes = <<HealthErr(hc.clients[1]), HealthErr(hc.clients[2]), NilErr>>
  /\ hc.ret = HealthErr(hc.clients[2])
  /\ clients = <<>>

\* C11: two concurrent ensureConnected calls on a disconnected client make one
\* channel-creation attempt between them, and neither tears down the channel
\* the other has just established (stated for calls none of which reports a
\* failed channel creation).
C11_OneConnectAttempt ==
  \A a, b \in Callers :
    (/\ a # b
     /\ a \in caller[b].with
     /\ caller[a].op = "ensureConnected" /\ caller[a].pc = "done"
     /\ caller[b].op = "ensureConnected" /\ caller[b].pc = "done"
     /\ caller[a].ret # "failed to reconnect to checker service"
     /\ caller[b].ret # "failed to reconnect to checker service"
     /\ \A c \in Callers \ {a, b} : caller[c].pc = "idle")
    => /\ caller[a].attempts + caller[b].attempts = 1
       /\ caller[a].made \notin caller[b].tornDown
       /\ caller[b].made \notin caller[a].tornDown

\* C12: a reconnect called while another reconnect holds the connection returns
\* "already reconnecting" and opens no channel.
C12_FailsFastWhenBusy ==
  \A c \in Callers :
    (caller[c].pc = "done" /\ caller[c].inFlight) =>
       /\ caller[c].ret = "already reconnecting"
       /\ caller[c].attempts = 0

\* everything the sharded dispatcher has sent for the job, forwarded or not
ShardSent == allResults \o resultChan

\* the result the sharded dispatcher sent for item i
ShardResult(i) == ShardSent[CHOOSE k \in 1..Len(ShardSent) : ShardSent[k].idx = i]

\* a CheckResult of the error kind for item i: the item text, the message, no tag
\* and nothing else
IsErrorOf(r, i, msg) ==
  /\ r.Status = CheckResultStatusError
  /\ r.Error = msg
  /\ r.Raw = configs[i]
  /\ r.CheckerNodeTag = <<>>

\* C14: when the pool is empty at dispatch time every item is finalized with the
\* Error "no available checker clients", its own text and no tag, and no node is
\* contacted, in sharded and in replicated mode.
C14_EmptyPoolErrors ==
  /\ (~aggregateMode /\ jobPc \notin {"start", "dispatch"} /\ snap.clients = <<>>) =>
        /\ Len(resultChan) = Len(configs)
        /\ \A i \in Items :
             /\ Cardinality(Emitted(resultChan, i)) = 1
             /\ IsErrorOf(ResultFor(i), i, "no available checker clients")
             /\ contacted[i] = {}
  /\ \A i \in Items :
       (aggregateMode /\ item[i].pc = "done" /\ item[i].clients = <<>>) =>
          /\ Cardinality(Emitted(resultChan, i)) = 1
          /\ IsErrorOf(ResultFor(i), i, "no available checker clients")
          /\ contacted[i] = {}

\* C14 witness: a sharded job of three items dispatched after Close, closed.
C14_Witness ==
  /\ ~aggregateMode
  /\ Len(closeRets) >= 1
  /\ snap.clients = <<>>
  /\ closeCount = 1
  /\ Len(configs) = 3
  /\ \A i \in Items : ResultFor(i).Error = "no available checker clients"

\* C14 witness, replicated mode: the pool was closed between the dispatch of the
\* two items; the second one finds no client.
C14_WitnessReplicated ==
  /\ aggregateMode
  /\ Len(configs) = 2
  /\ \E i, j \in Items :
       /\ item[i].pc = "done" /\ item[i].clients # <<>>
       /\ item[j].pc = "done" /\ item[j].clients = <<>>
       /\ ResultFor(j).Error = "no available checker clients"

\* C18: a terminal response maps to Success iff it is valid with status SUCCESS,
\* otherwise to Unavailable with "Connection timeout" if its status is TIMEOUT,
\* otherwise to Error with the node's message.
C18_StatusMapping ==
  \A i \in Items :
    (~aggregateMode /\ task[i].pc = "done" /\ task[i].sent # NilResponse) =>
       LET r == task[i].sent
           ok == r.IsValid /\ r.Status = "SUCCESS"
       IN /\ Cardinality(Emitted(ShardSent, i)) = 1
          /\ ShardResult(i).Status = CheckResultStatusSuccess <=> ok
          /\ (~ok /\ r.Status = "TIMEOUT") =>
                /\ ShardResult(i).Status = CheckResultStatusUnavailable
                /\ ShardResult(i).Error = "Connection timeout"
          /\ (~ok /\ r.Status # "TIMEOUT") =>
                /\ ShardResult(i).Status = CheckResultStatusError
                /\ ShardResult(i).Error = r.Error

\* C18 witness: SUCCESS without validity came out as Error with the node's message.
C18_Witness ==
  \E i \in Items :
    /\ ~aggregateMode
    /\ task[i].pc = "done"
    /\ task[i].sent.Status = "SUCCESS"
    /\ ~task[i].sent.IsValid
    /\ task[i].sent.Error = "check failed"
    /\ closeCount = 1
    /\ ResultFor(i).Status = CheckResultStatusError
    /\ ResultFor(i).Error = "check failed"

\* C19: in every CheckResult on the result stream the protocol, server, country
\* and remark are present only under Success, and the error text is not empty
\* under Unavailable and Error.
C19_MetadataAndErrorText ==
  \A k \in 1..Len(resultChan) :
    LET r == resultChan[k] IN
      /\ r.Status # CheckResultStatusSuccess =>
            (r.Protocol = "" /\ r.Server = "" /\ r.CountryCode = "" /\ r.Remark = "")
      /\ r.Status \in {CheckResultStatusUnavailable, CheckResultStatusError} => r.Error # ""

\* C20: in sharded mode an item whose Check call fails to start gets exactly one
\* Error with its text, the transport error and no tag; the items of other nodes
\* get the result of their own response.
C20_StartFailureContained ==
  ~aggregateMode =>
    \A i \in Items :
      (task[i].pc = "done" /\ task[i].err # "") =>
         /\ Cardinality(Emitted(ShardSent, i)) = 1
         /\ IsErrorOf(ShardResult(i), i, task[i].err)
         /\ closeCount = 1 => Cardinality(Emitted(resultChan, i)) = 1
         /\ \A j \in Items :
              (task[j].pc = "done" /\ task[j].sent # NilResponse) =>
                 /\ Cardinality(Emitted(ShardSent, j)) = 1
                 /\ ShardResult(j).Raw = task[j].sent.Config
                 /\ ShardResult(j).CheckerNodeTag = <<task[j].sent.CheckerNodeTag>>
                 /\ ShardResult(j).Status = CheckResultStatusSuccess
                      <=> (task[j].sent.IsValid /\ task[j].sent.Status = "SUCCESS")

\* C20 witness: three items over two nodes; the call on the first node fails to
\* start for the first item, the second item succeeds on the second node.
C20_Witness ==
  /\ ~aggregateMode
  /\ closeCount = 1
  /\ Len(configs) = 3
  /\ Len(snap.clients) = 2
  /\ task[1].err \in StartErrors
  /\ \A i \in Items : Emitted(resultChan, i) # {}
  /\ ResultFor(1).Error = task[1].err
  /\ ResultFor(2).Status = CheckResultStatusSuccess
  /\ ResultFor(3).Status = CheckResultStatusSuccess

\* a goroutine of the dispatcher is at a send on a full channel
BlockedEmit ==
  \/ jobPc = "forwarding" /\ allResults # <<>> /\ Len(resultChan) >= ResultChanCap
  \/ \E i \in Items :
        item[i].pc \in {"waiting", "collecting"} /\ Len(resultChan) >= ResultChanCap
  \/ \E i \in Items :
        task[i].pc \in {"spawned", "spawnedLate"} /\ Len(allResults) >= Len(configs)

\* C17: every job ends with its result stream closed, at the latest after the
\* deadline has fired, whatever the nodes do and although nobody reads the
\* stream; no goroutine of the dispatcher is ever blocked on a send.
C17_JobTerminates ==
  /\ []~BlockedEmit
  /\ <>(closeCount = 1)
  /\ deadlineFired ~> (closeCount = 1)

\* C17 witness: a replicated job of two items closed after the deadline; a node
\* never answered and the stream holds both results unread.
C17_Witness ==
  /\ aggregateMode
  /\ deadlineFired
  /\ closeCount = 1
  /\ Len(configs) = 2
  /\ Len(resultChan) = 2
  /\ \E i \in Items, n \in Nodes : wtask[i][n].pc = "spawned"
  /\ \E i \in Items : ResultFor(i).Error = "timeout waiting for worker results"

\* the items of the job that hold the semaphore: inside their fan-out and merge
InsideMerge == {i \in Items : item[i].pc = "collecting"}

\* C21: in replicated mode never more items are inside their fan-out and merge
\* step than the configured concurrency limit, and every item that waits for the
\* semaphore eventually gets it.
C21_BoundedConcurrency ==
  /\ [](aggregateMode =>
          /\ Cardinality(InsideMerge) <= maxConcurrent
          /\ semaphore = Cardinality(InsideMerge))
  /\ \A i \in 1..MaxAggItems :
       (i \in Items /\ item[i].pc = "waiting")
          ~> (i \in Items /\ item[i].pc \in {"collecting", "done"})

\* C21 witness: limit 1, one item inside its merge while the other still waits
\* for the semaphore.
C21_Witness ==
  /\ aggregateMode
  /\ maxConcurrent = 1
  /\ Len(configs) = 2
  /\ \E i, j \in Items : item[i].pc = "collecting" /\ item[j].pc = "waiting"

\* the GetStats calls that selected a client while the pool was the one
\* NewGRPCCore built
OnBuiltPool(j) == j \in 1..Len(gs) /\ gs[j].pool = Connected /\ Connected # <<>>

C22_WitnessEmpty ==
  /\ Len(gs) = 2
  /\ gs[1].pool # <<>> /\ gs[1].pc = "selected"
  /\ gs[2].pool = <<>> /\ gs[2].ret = NoClientsErr /\ gs[2].k = 1

\* the jobs that have executed totalRequests.Add(1)
Counted == {j \in Jobs : jobs[j].pc \notin {"idle", "spawned"}}
\* the jobs between activeRequests.Add(1) and the deferred activeRequests.Add(-1)
Active == {j \in Jobs : jobs[j].pc \notin {"idle", "spawned", "counted"}
                         /\ ~jobs[j].decremented}

\* C23: totalRequests counts the jobs that started, activeRequests those that
\* started and did not complete, 0 <= activeRequests <= totalRequests, and a
\* job's decrement precedes the close of its result stream.
C23_Counters ==
  /\ totalRequests = Cardinality(Counted)
  /\ activeRequests = Cardinality(Active)
  /\ 0 <= activeRequests /\ activeRequests <= totalRequests
  /\ \A j \in Jobs : jobs[j].closed => (jobs[j].decremented /\ j \notin Active)
  /\ (\A j \in Counted : jobs[j].closed) => activeRequests = 0

\* C23 witness: of three jobs one has closed its stream, one is running and one
\* is between its two increments.
C23_Witness ==
  /\ totalRequests = 3
  /\ activeRequests = 1
  /\ \E a, b, c \in Jobs :
       /\ jobs[a].closed
       /\ jobs[b].pc = "running"
       /\ jobs[c].pc = "counted"

\* C30: the deadline of a job is the configured timeout when that is positive
\* and 30 seconds otherwise.
C30_ConfiguredDeadline ==
  \A j \in Jobs :
     jobs[j].pc \in {"running", "deferred", "returned"} =>
        jobs[j].deadline = IF optsTimeout > 0 THEN optsTimeout ELSE 30 * Second

\* the goroutines between the lock and the unlock of connect or reconnect
InSection == {c \in Callers : caller[c].pc \in {"connecting", "creating"}}

\* C24: at most one goroutine at a time is inside the section of connect or
\* reconnect that tears down, creates and stores the channel, and it holds the
\* lock of the client.
C24_OneInSection ==
  /\ Cardinality(InSection) <= 1
  /\ cc.mu # 0 => InSection = {cc.mu}
  /\ InSection # {} => cc.mu \in InSection
  /\ cc.reconnecting => \E c \in InSection : caller[c].pc = "creating"

\* C24 witness: a reconnect has torn the channel down and is creating the next
\* one while a second reconnect waits for the lock, after a Close.
C24_Witness ==
  \E a, b, c \in Callers :
     /\ caller[a].pc = "creating" /\ caller[a].tornDown # {}
     /\ caller[b].pc = "lockWait"
     /\ caller[c].op = "Close" /\ caller[c].pc = "done"

\* C25: of two Close calls on a connection, the later one closes no channel and
\* returns no error, and the client stays disconnected.
C25_IdempotentClientClose ==
  \A a, b \in Callers :
    (/\ a # b
     /\ caller[a].op = "Close" /\ caller[a].pc = "done"
     /\ caller[b].op = "Close" /\ caller[b].pc = "done"
     /\ \A c \in Callers \ {a, b} : caller[c].pc = "idle")
    => /\ \E c \in {a, b} : caller[c].tornDown = {} /\ caller[c].ret = ""
       /\ \A k \in 1..Len(channels) : channels[k].closes <= 1
       /\ ~cc.connected

\* C26: a failed Send is the last Send of the stream, and the receive task goes
\* on: it stops only at end-of-stream, on a receive error or on cancellation,
\* and forwards every response it received unless cancellation made it drop one.
C26_SendFailureLeavesReceive ==
  /\ call.failedAt # 0 => (call.spc = "exited" /\ call.sendCalls = call.failedAt
                            /\ call.sexit = "send error")
  /\ call.rpc = "exited" => call.rexit \in {"eof", "recv error", "ctx"}
  /\ call.received = call.forwarded + call.dropped
                        + (IF call.rpc = "forward" THEN 1 ELSE 0)
  /\ call.dropped > 0 => (call.dropped = 1 /\ call.rexit = "ctx" /\ call.ctxDone)
  /\ (call.failedAt # 0 /\ call.rpc = "recv" /\ call.wire # <<>>) => ENABLED RecvStep
  /\ (call.failedAt # 0 /\ call.rpc = "forward"
        /\ Len(call.resultChan) < CallChanCap(call)) => ENABLED ForwardStep

\* C26 witness: the second Send failed; two responses to the first request were
\* forwarded after that and the consumer took them.
C26_Witness ==
  /\ call.n = 2
  /\ call.failedAt = 2
  /\ call.lateForwards = 2
  /\ call.delivered = <<1, 2>>
  /\ call.rpc = "recv"

\* C27: a started call closes its result channel once, when and only when the
\* receive task returns, and half-closes the stream once, when and only when
\* the send task returns; nothing is sent on the closed channel, and a call
\* that failed to start has neither task nor channel.
C27_ClosedOnce ==
  /\ call.closes = (IF call.rpc = "exited" THEN 1 ELSE 0)
  /\ call.closeSends = (IF call.spc = "exited" THEN 1 ELSE 0)
  /\ ~call.sendOnClosed
  /\ call.closes > 0 => call.forwarded = Len(call.resultChan) + Len(call.delivered)
  /\ call.pc = "failed" => (call.spc = "idle" /\ call.rpc = "idle" /\ call.ret # "")
  /\ call.spc = "exited" => call.sexit \in {"all sent", "send error", "ctx"}

\* C27 witness: the send task sent its one config; the node answered three
\* times and the receive task, holding the third response while the result
\* channel was full, left on cancellation.
C27_Witness ==
  /\ call.n = 1 /\ call.produced = 3
  /\ call.sexit = "all sent"
  /\ call.rexit = "ctx" /\ call.dropped = 1
  /\ Len(call.resultChan) = CallChanCap(call)
  /\ call.closes = 1 /\ call.closeSends = 1

\* C27 witness: cancellation stops the send task before its second Send.
C27_WitnessCancelledSend ==
  /\ call.n = 2 /\ call.sendCalls = 1
  /\ call.sexit = "ctx"
  /\ call.rexit = "eof"

\* the result the item's goroutine sends for item i, from what its collector holds:
\* the empty-pool error, the merge of all outcomes, or the timeout error
MergedFor(i) ==
  IF item[i].clients = <<>>
  THEN createErrorResult(i, "no available checker clients", configs[i], <<>>)
  ELSE IF Len(item[i].collected) = Len(item[i].clients)
  THEN buildAggregatedResult(i, configs[i], item[i].successfulResults,
                             item[i].totalLatency, item[i].successfulTags)
  ELSE createErrorResult(i, "timeout waiting for worker results", configs[i],
                         item[i].successfulTags)

\* C28: in replicated mode an item's result is on the stream only once every
\* member of its snapshot has delivered or the deadline has fired, and what is
\* on the stream is that one merged result, never a per-node outcome.
C28_NoPartialEmission ==
  aggregateMode =>
     /\ \A i \in Items :
          Emitted(resultChan, i) # {} =>
             /\ item[i].pc = "done"
             /\ \/ item[i].clients = <<>>
                \/ Len(item[i].collected) = Len(item[i].clients)
                \/ deadlineFired
             /\ \A k \in Emitted(resultChan, i) : resultChan[k] = MergedFor(i)
     /\ Len(resultChan) = Cardinality({i \in Items : item[i].pc = "done"})

\* C28 witness: the first item was merged from the outcomes of both nodes; the
\* second holds one of its two outcomes and has nothing on the stream.
C28_Witness ==
  /\ aggregateMode
  /\ ~deadlineFired
  /\ Len(configs) = 2
  /\ item[1].pc = "done" /\ Len(item[1].collected) = 2
  /\ Len(item[1].successfulResults) = 1
  /\ item[2].pc = "collecting" /\ Len(item[2].collected) = 1
  /\ Len(item[2].successfulResults) = 1
  /\ Len(resultChan) = 1

\* the outcomes node n has delivered for item i, collected or still in the channel
Delivered(i, n) ==
  Cardinality({k \in 1..Len(item[i].collected) : item[i].collected[k] = n})
  + Cardinality({k \in 1..Len(wchan[i]) : wchan[i][k].node = n})

\* C29: in replicated mode a task is started for every member of the item's
\* snapshot and for nobody else; a finished task has delivered one outcome (its
\* first terminal response, a start error or "no result received"), an
\* unfinished one none; the item's channel always has room for a task that has
\* yet to deliver, whether or not the collector is still there.
C29_OneOutcomePerMember ==
  aggregateMode =>
    \A i \in Items :
      /\ item[i].pc \in {"collecting", "done"} =>
            \A n \in Nodes : n \in Range(item[i].clients) <=> wtask[i][n].pc # "none"
      /\ contacted[i] = {n \in Nodes : wtask[i][n].pc = "done"}
      /\ \A n \in Nodes :
            /\ Delivered(i, n) = (IF wtask[i][n].pc = "done" THEN 1 ELSE 0)
            /\ wtask[i][n].pc = "done" =>
                  \/ wtask[i][n].sent.err \in StartErrors
                  \/ /\ wtask[i][n].sent.err = "no result received"
                     /\ FirstFinal(wtask[i][n].stream, 1) = 0
                  \/ /\ wtask[i][n].sent.err = ""
                     /\ FirstFinal(wtask[i][n].stream, 1) = Len(wtask[i][n].stream)
                     /\ IsTerminal(wtask[i][n].sent.result)
            /\ wtask[i][n].pc \in {"spawned", "spawnedLate"} =>
                  Len(wchan[i]) < WorkerChanCap(i)

\* C29 witness: the collector of a two-node item returned on the deadline with
\* one outcome; the other node's task delivered afterwards into the channel.
C29_Witness ==
  /\ aggregateMode
  /\ \E i \in Items :
       /\ item[i].pc = "done"
       /\ Len(item[i].clients) = 2
       /\ Len(item[i].collected) = 1
       /\ Len(wchan[i]) = 1
       /\ \A n \in Range(item[i].clients) : wtask[i][n].pc = "done"
       /\ wchan[i][1].err = "no result received"

\* C37: the bot list and the bot map hold the same bots, so GetBotsCount is the
\* number of entries of ListBots, and getNextBot returns only bots the map held.
C37_ListMatchesMap ==
  /\ Len(botsList) = Cardinality(DOMAIN bots)
  /\ Range(botsList) = BotsOf(bots)
  /\ nextBot.listed

\* C31: an RPC is issued only while the client is marked connected, on a
\* channel that is open and not being replaced.
C31_RpcOnConnectedChannel ==
  \A c \in Callers :
     caller[c].rpc.issued =>
        /\ caller[c].rpc.connected
        /\ caller[c].rpc.open
        /\ ~caller[c].rpc.replacing

\* C32: once Close has closed the channel of a pooled client, the client is
\* never connected again and no further channel is opened for it, whatever
\* calls the workers of a running job still make on it.
C32_ClosedStaysClosed ==
  (\A d \in Callers : caller[d].op \in {"none", "Close", "ensureConnected"}) =>
     \A c \in Callers :
        (caller[c].op = "Close" /\ caller[c].pc = "done" /\ caller[c].tornDown # {}) =>
           /\ ~cc.connected
           /\ \A k \in 1..Len(channels) : \E j \in caller[c].tornDown : k <= j

\* the items of a replicated job that have taken their snapshot of the pool
Dispatched == {i \in Items : item[i].pc \in {"collecting", "done"}}

\* C33: all items of a job are dispatched against one snapshot of the pool: in
\* sharded mode every task runs on the member the job's snapshot assigns to it,
\* in replicated mode every item fans out over the same list of nodes.
C33_OneSnapshotPerJob ==
  /\ ~aggregateMode =>
        \A i \in Items :
           task[i].pc # "none" =>
              task[i].client = snap.clients[ClientIndex(i - 1, Len(snap.clients)) + 1]
  /\ aggregateMode =>
        \A i, j \in Dispatched : item[i].clients = item[j].clients

\* the tags the pool snapshot pairs with the members item i was sent to
ConfiguredTags(i) ==
  IF aggregateMode THEN {SnapTag(i, n) : n \in contacted[i]}
  ELSE {task[i].tag}

\* C34: every tag of an emitted CheckResult is the configured tag of a member
\* the item was sent to, whatever tag the node reports.
C34_TagsAreConfigured ==
  \A k \in 1..Len(resultChan) :
     Range(resultChan[k].CheckerNodeTag) \subseteq ConfiguredTags(resultChan[k].idx)

\* C35: the raw text of every emitted CheckResult is the text of the submitted
\* item it stands for, whatever text the node echoes; so the raw texts of the
\* stream are drawn from the batch.
C35_RawIsSubmittedText ==
  \A k \in 1..Len(resultChan) :
     resultChan[k].Raw = configs[resultChan[k].idx]

\* no goroutine of a job is left: per-item tasks of both modes and per-node tasks
EngineTasksDone ==
  /\ \A i \in Items : task[i].pc \in {"none", "done"}
  /\ \A i \in Items : item[i].pc \in {"none", "done"}
  /\ \A i \in Items, n \in Nodes : wtask[i][n].pc \in {"none", "done"}

\* the send task and the receive task of the stream have returned
StreamTasksDone == call.spc = "exited" /\ call.rpc = "exited"

\* C36: once the result stream of a job is closed and its context cancelled,
\* every per-item and per-node task ends, also the per-node tasks whose collector
\* returned on the deadline; once the context of a Check stream is done, its send
\* task and its receive task end, also when nobody reads the result channel.
C36_TasksTerminate ==
  /\ (closeCount = 1 /\ ctxDone) ~> EngineTasksDone
  /\ (call.pc = "started" /\ call.ctxDone) ~> StreamTasksDone

\* C36 witness: the consumer never read, the result channel is full, and the
\* receive task, a response in hand, returned on the context; both tasks are gone.
C36_Witness ==
  /\ StreamTasksDone
  /\ call.delivered = <<>>
  /\ Len(call.resultChan) = CallChanCap(call)
  /\ call.rexit = "ctx"
  /\ call.dropped = 1
====
